---- MODULE Spec2Model ----
(***************************************************************************)
(* The country-code registry of country-codes.go: the table by_alpha2, the *)
(* three maps and the name trie that init() derives from it, and the four  *)
(* exported accessors.                                                      *)
(*                                                                         *)
(* A Go string is a TLA+ string; Runes gives its code points, so that      *)
(* strings.ToLower and the trie's prefix test are computed on the          *)
(* characters.  A patricia.Prefix (the UTF-8 bytes of a string) is the     *)
(* sequence of the code points it encodes: one string's bytes start with   *)
(* another's exactly when its code points do.                              *)
(***************************************************************************)
EXTENDS Integers, Sequences, FiniteSets, TLC

\* type Assignment int, const ( ... iota ... )
OFFICIALLY_ASSIGNED == 0
USER_ASSIGNED == 1
EXCEPTIONALLY_RESERVED == 2
TRANSITIONALLY_RESERVED == 3
INDETERMINATELY_RESERVED == 4
NOT_USED == 5

\* The zero value of type CountryCode: what a Go map read yields for an absent key.
ZeroCountryCode ==
  [Name |-> "", Alpha2 |-> "", Alpha3 |-> "", Numeric |-> 0,
   DialingCode |-> "", Assignment |-> 0]

\* The composite literal assigned to by_alpha2, entry by entry in source order:
\* key is the map key, cc the CountryCode value written beside it.
Literal == <<
  \* country-codes.go:93
  [key |-> "AC", cc |-> [Name |-> "Ascension Island", Alpha2 |-> "AC", Alpha3 |-> "ASC",
    Numeric |-> -1, DialingCode |-> "+247", Assignment |-> EXCEPTIONALLY_RESERVED]],
  \* country-codes.go:107
  [key |-> "AD", cc |-> [Name |-> "Andorra", Alpha2 |-> "AD", Alpha3 |-> "AND",
    Numeric |-> 20, DialingCode |-> "+376", Assignment |-> OFFICIALLY_ASSIGNED]],
  \* country-codes.go:121
  [key |-> "AE", cc |-> [Name |-> "United Arab Emirates", Alpha2 |-> "AE", Alpha3 |-> "ARE",
    Numeric |-> 784, DialingCode |-> "+971", Assignment |-> OFFICIALLY_ASSIGNED]],
  \* country-codes.go:135
  [key |-> "AF", cc |-> [Name |-> "Afghanistan", Alpha2 |-> "AF", Alpha3 |-> "AFG",
    Numeric |-> 4, DialingCode |-> "+93", Assignment |-> OFFICIALLY_ASSIGNED]],
  \* country-codes.go:149
  [key |-> "AG", cc |-> [Name |-> "Antigua and Barbuda", Alpha2 |-> "AG", Alpha3 |-> "ATG",
    Numeric |-> 28, DialingCode |-> "+1-268", Assignment |-> OFFICIALLY_ASSIGNED]],
  \* country-codes.go:163
  [key |-> "AI", cc |-> [Name |-> "Anguilla", Alpha2 |-> "AI", Alpha3 |-> "AIA",
    Numeric |-> 660, DialingCode |-> "+1-264", Assignment |-> OFFICIALLY_ASSIGNED]],
  \* country-codes.go:177
  [key |-> "AL", cc |-> [Name |-> "Albania", Alpha2 |-> "AL", Alpha3 |-> "ALB",
    Numeric |-> 8, DialingCode |-> "+355", Assignment |-> OFFICIALLY_ASSIGNED]],
  \* country-codes.go:191
  [key |-> "AM", cc |-> [Name |-> "Armenia", Alpha2 |-> "AM", Alpha3 |-> "ARM",
    Numeric |-> 51, DialingCode |-> "+374", Assignment |-> OFFICIALLY_ASSIGNED]],
  \* country-codes.go:205
  [key |-> "AN", cc |-> [Name |-> "Netherlands Antilles", Alpha2 |-> "AN", Alpha3 |-> "ANHH",
    Numeric |-> 530, DialingCode |-> "+599", Assignment |-> TRANSITIONALLY_RESERVED]],
  \* country-codes.go:219
  [key |-> "AO", cc |-> [Name |-> "Angola", Alpha2 |-> "AO", Alpha3 |-> "AGO",
    Numeric |-> 24, DialingCode |-> "+244", Assignment |-> OFFICIALLY_ASSIGNED]],
  \* country-codes.go:233
  [key |-> "AQ", cc |-> [Name |-> "Antarctica", Alpha2 |-> "AQ", Alpha3 |-> "ATA",
    Numeric |-> 10, DialingCode |-> "+672", Assignment |-> OFFICIALLY_ASSIGNED]],
  \* country-codes.go:247
  [key |-> "AR", cc |-> [Name |-> "Argentina", Alpha2 |-> "AR", Alpha3 |-> "ARG",
    Numeric |-> 32, DialingCode |-> "+54", Assignment |-> OFFICIALLY_ASSIGNED]],
  \* country-codes.go:261
  [key |-> "AS", cc |-> [Name |-> "American Samoa", Alpha2 |-> "AS", Alpha3 |-> "ASM",
    Numeric |-> 16, DialingCode |-> "+1-684", Assignment |-> OFFICIALLY_ASSIGNED]],
  \* country-codes.go:275
  [key |-> "AT", cc |-> [Name |-> "Austria", Alpha2 |-> "AT", Alpha3 |-> "AUT",
    Numeric |-> 40, DialingCode |-> "+43", Assignment |-> OFFICIALLY_ASSIGNED]],
  \* country-codes.go:289
  [key |-> "AU", cc |-> [Name |-> "Australia", Alpha2 |-> "AU", Alpha3 |-> "AUS",
    Numeric |-> 36, DialingCode |-> "+61", Assignment |-> OFFICIALLY_ASSIGNED]],
  \* country-codes.go:303
  [key |-> "AW", cc |-> [Name |-> "Aruba", Alpha2 |-> "AW", Alpha3 |-> "ABW",
    Numeric |-> 533, DialingCode |-> "+297", Assignment |-> OFFICIALLY_ASSIGNED]],
  \* country-codes.go:317
  [key |-> "AX", cc |-> [Name |-> "\\u212Bland Islands", Alpha2 |-> "AX", Alpha3 |-> "ALA",
    Numeric |-> 248, DialingCode |-> "", Assignment |-> OFFICIALLY_ASSIGNED]],
  \* country-codes.go:331
  [key |-> "AZ", cc |-> [Name |-> "Azerbaijan", Alpha2 |-> "AZ", Alpha3 |-> "AZE",
    Numeric |-> 31, DialingCode |-> "+994", Assignment |-> OFFICIALLY_ASSIGNED]],
  \* country-codes.go:345
  [key |-> "BA", cc |-> [Name |-> "Bosnia and Herzegovina", Alpha2 |-> "BA", Alpha3 |-> "BIH",
    Numeric |-> 70, DialingCode |-> "+387", Assignment |-> OFFICIALLY_ASSIGNED]],
  \* country-codes.go:359
  [key |-> "BB", cc |-> [Name |-> "Barbados", Alpha2 |-> "BB", Alpha3 |-> "BRB",
    Numeric |-> 52, DialingCode |-> "+1-246", Assignment |-> OFFICIALLY_ASSIGNED]],
  \* country-codes.go:373
  [key |-> "BD", cc |-> [Name |-> "Bangladesh", Alpha2 |-> "BD", Alpha3 |-> "BGD",
    Numeric |-> 50, DialingCode |-> "+880", Assignment |-> OFFICIALLY_ASSIGNED]],
  \* country-codes.go:387
  [key |-> "BE", cc |-> [Name |-> "Belgium", Alpha2 |-> "BE", Alpha3 |-> "BEL",
    Numeric |-> 56, DialingCode |-> "+32", Assignment |-> OFFICIALLY_ASSIGNED]],
  \* country-codes.go:401
  [key |-> "BF", cc |-> [Name |-> "Burkina Faso", Alpha2 |-> "BF", Alpha3 |-> "BFA",
    Numeric |-> 854, DialingCode |-> "+226", Assignment |-> OFFICIALLY_ASSIGNED]],
  \* country-codes.go:415
  [key |-> "BG", cc |-> [Name |-> "Bulgaria", Alpha2 |-> "BG", Alpha3 |-> "BGR",
    Numeric |-> 100, DialingCode |-> "+359", Assignment |-> OFFICIALLY_ASSIGNED]],
  \* country-codes.go:429
  [key |-> "BH", cc |-> [Name |-> "Bahrain", Alpha2 |-> "BH", Alpha3 |-> "BHR",
    Numeric |-> 48, DialingCode |-> "+973", Assignment |-> OFFICIALLY_ASSIGNED]],
  \* country-codes.go:443
  [key |-> "BI", cc |-> [Name |-> "Burundi", Alpha2 |-> "BI", Alpha3 |-> "BDI",
    Numeric |-> 108, DialingCode |-> "+257", Assignment |-> OFFICIALLY_ASSIGNED]],
  \* country-codes.go:457
  [key |-> "BJ", cc |-> [Name |-> "Benin", Alpha2 |-> "BJ", Alpha3 |-> "BEN",
    Numeric |-> 204, DialingCode |-> "+229", Assignment |-> OFFICIALLY_ASSIGNED]],
  \* country-codes.go:471
  [key |-> "BL", cc |-> [Name |-> "Saint Barth\\u00E9lemy", Alpha2 |-> "BL", Alpha3 |-> "BLM",
    Numeric |-> 652, DialingCode |-> "+590", Assignment |-> OFFICIALLY_ASSIGNED]],
  \* country-codes.go:485
  [key |-> "BM", cc |-> [Name |-> "Bermuda", Alpha2 |-> "BM", Alpha3 |-> "BMU",
    Numeric |-> 60, DialingCode |-> "+1-441", Assignment |-> OFFICIALLY_ASSIGNED]],
  \* country-codes.go:499
  [key |-> "BN", cc |-> [Name |-> "Brunei Darussalam", Alpha2 |-> "BN", Alpha3 |-> "BRN",
    Numeric |-> 96, DialingCode |-> "+673", Assignment |-> OFFICIALLY_ASSIGNED]],
  \* country-codes.go:513
  [key |-> "BO", cc |-> [Name |-> "Bolivia, Plurinational State of", Alpha2 |-> "BO", Alpha3 |-> "BOL",
    Numeric |-> 68, DialingCode |-> "+591", Assignment |-> OFFICIALLY_ASSIGNED]],
  \* country-codes.go:527
  [key |-> "BQ", cc |-> [Name |-> "Bonaire, Sint Eustatius and Saba", Alpha2 |-> "BQ", Alpha3 |-> "BES",
    Numeric |-> 535, DialingCode |-> "+599", Assignment |-> OFFICIALLY_ASSIGNED]],
  \* country-codes.go:541
  [key |-> "BR", cc |-> [Name |-> "Brazil", Alpha2 |-> "BR", Alpha3 |-> "BRA",
    Numeric |-> 76, DialingCode |-> "+55", Assignment |-> OFFICIALLY_ASSIGNED]],
  \* country-codes.go:555
  [key |-> "BS", cc |-> [Name |-> "Bahamas", Alpha2 |-> "BS", Alpha3 |-> "BHS",
    Numeric |-> 44, DialingCode |-> "+1-242", Assignment |-> OFFICIALLY_ASSIGNED]],
  \* country-codes.go:569
  [key |-> "BT", cc |-> [Name |-> "Bhutan", Alpha2 |-> "BT", Alpha3 |-> "BTN",
    Numeric |-> 64, DialingCode |-> "+975", Assignment |-> OFFICIALLY_ASSIGNED]],
  \* country-codes.go:585
  [key |-> "BU", cc |-> [Name |-> "Burma", Alpha2 |-> "BU", Alpha3 |-> "BUMM",
    Numeric |-> 104, DialingCode |-> "+95", Assignment |-> TRANSITIONALLY_RESERVED]],
  \* country-codes.go:599
  [key |-> "BV", cc |-> [Name |-> "Bouvet Island", Alpha2 |-> "BV", Alpha3 |-> "BVT",
    Numeric |-> 74, DialingCode |-> "", Assignment |-> OFFICIALLY_ASSIGNED]],
  \* country-codes.go:613
  [key |-> "BW", cc |-> [Name |-> "Botswana", Alpha2 |-> "BW", Alpha3 |-> "BWA",
    Numeric |-> 72, DialingCode |-> "+267", Assignment |-> OFFICIALLY_ASSIGNED]],
  \* country-codes.go:627
  [key |-> "BY", cc |-> [Name |-> "Belarus", Alpha2 |-> "BY", Alpha3 |-> "BLR",
    Numeric |-> 112, DialingCode |-> "+375", Assignment |-> OFFICIALLY_ASSIGNED]],
  \* country-codes.go:641
  [key |-> "BZ", cc |-> [Name |-> "Belize", Alpha2 |-> "BZ", Alpha3 |-> "BLZ",
    Numeric |-> 84, DialingCode |-> "+501", Assignment |-> OFFICIALLY_ASSIGNED]],
  \* country-codes.go:655
  [key |-> "CA", cc |-> [Name |-> "Canada", Alpha2 |-> "CA", Alpha3 |-> "CAN",
    Numeric |-> 124, DialingCode |-> "+1", Assignment |-> OFFICIALLY_ASSIGNED]],
  \* country-codes.go:668
  [key |-> "CC", cc |-> [Name |-> "Cocos (Keeling) Islands", Alpha2 |-> "CC", Alpha3 |-> "CCK",
    Numeric |-> 166, DialingCode |-> "+61", Assignment |-> OFFICIALLY_ASSIGNED]],
  \* country-codes.go:682
  [key |-> "CD", cc |-> [Name |-> "Congo, the Democratic Republic of the", Alpha2 |-> "CD", Alpha3 |-> "COD",
    Numeric |-> 180, DialingCode |-> "+243", Assignment |-> OFFICIALLY_ASSIGNED]],
  \* country-codes.go:696
  [key |-> "CF", cc |-> [Name |-> "Central African Republic", Alpha2 |-> "CF", Alpha3 |-> "CAF",
    Numeric |-> 140, DialingCode |-> "+236", Assignment |-> OFFICIALLY_ASSIGNED]],
  \* country-codes.go:710
  [key |-> "CG", cc |-> [Name |-> "Congo", Alpha2 |-> "CG", Alpha3 |-> "COG",
    Numeric |-> 178, DialingCode |-> "+242", Assignment |-> OFFICIALLY_ASSIGNED]],
  \* country-codes.go:724
  [key |-> "CH", cc |-> [Name |-> "Switzerland", Alpha2 |-> "CH", Alpha3 |-> "CHE",
    Numeric |-> 756, DialingCode |-> "+41", Assignment |-> OFFICIALLY_ASSIGNED]],
  \* country-codes.go:738
  [key |-> "CI", cc |-> [Name |-> "C\\u00F4te d'Ivoire", Alpha2 |-> "CI", Alpha3 |-> "CIV",
    Numeric |-> 384, DialingCode |-> "+225", Assignment |-> OFFICIALLY_ASSIGNED]],
  \* country-codes.go:752
  [key |-> "CK", cc |-> [Name |-> "Cook Islands", Alpha2 |-> "CK", Alpha3 |-> "COK",
    Numeric |-> 184, DialingCode |-> "+682", Assignment |-> OFFICIALLY_ASSIGNED]],
  \* country-codes.go:766
  [key |-> "CL", cc |-> [Name |-> "Chile", Alpha2 |-> "CL", Alpha3 |-> "CHL",
    Numeric |-> 152, DialingCode |-> "+56", Assignment |-> OFFICIALLY_ASSIGNED]],
  \* country-codes.go:780
  [key |-> "CM", cc |-> [Name |-> "Cameroon", Alpha2 |-> "CM", Alpha3 |-> "CMR",
    Numeric |-> 120, DialingCode |-> "+237", Assignment |-> OFFICIALLY_ASSIGNED]],
  \* country-codes.go:794
  [key |-> "CN", cc |-> [Name |-> "China", Alpha2 |-> "CN", Alpha3 |-> "CHN",
    Numeric |-> 156, DialingCode |-> "+86", Assignment |-> OFFICIALLY_ASSIGNED]],
  \* country-codes.go:807
  [key |-> "CO", cc |-> [Name |-> "Colombia", Alpha2 |-> "CO", Alpha3 |-> "COL",
    Numeric |-> 170, DialingCode |-> "+57", Assignment |-> OFFICIALLY_ASSIGNED]],
  \* country-codes.go:821
  [key |-> "CP", cc |-> [Name |-> "Clipperton Island", Alpha2 |-> "CP", Alpha3 |-> "CPT",
    Numeric |-> -1, DialingCode |-> "", Assignment |-> EXCEPTIONALLY_RESERVED]],
  \* country-codes.go:835
  [key |-> "CR", cc |-> [Name |-> "Costa Rica", Alpha2 |-> "CR", Alpha3 |-> "CRI",
    Numeric |-> 188, DialingCode |-> "+506", Assignment |-> OFFICIALLY_ASSIGNED]],
  \* country-codes.go:849
  [key |-> "CS", cc |-> [Name |-> "Serbia and Montenegro", Alpha2 |-> "CS", Alpha3 |-> "CSXX",
    Numeric |-> 891, DialingCode |-> "+381", Assignment |-> TRANSITIONALLY_RESERVED]],
  \* country-codes.go:863
  [key |-> "CU", cc |-> [Name |-> "Cuba", Alpha2 |-> "CU", Alpha3 |-> "CUB",
    Numeric |-> 192, DialingCode |-> "+53", Assignment |-> OFFICIALLY_ASSIGNED]],
  \* country-codes.go:877
  [key |-> "CV", cc |-> [Name |-> "Cape Verde", Alpha2 |-> "CV", Alpha3 |-> "CPV",
    Numeric |-> 132, DialingCode |-> "+238", Assignment |-> OFFICIALLY_ASSIGNED]],
  \* country-codes.go:891
  [key |-> "CW", cc |-> [Name |-> "Cura\\u00E7ao", Alpha2 |-> "CW", Alpha3 |-> "CUW",
    Numeric |-> 531, DialingCode |-> "+599", Assignment |-> OFFICIALLY_ASSIGNED]],
  \* country-codes.go:905
  [key |-> "CX", cc |-> [Name |-> "Christmas Island", Alpha2 |-> "CX", Alpha3 |-> "CXR",
    Numeric |-> 162, DialingCode |-> "+61", Assignment |-> OFFICIALLY_ASSIGNED]],
  \* country-codes.go:919
  [key |-> "CY", cc |-> [Name |-> "Cyprus", Alpha2 |-> "CY", Alpha3 |-> "CYP",
    Numeric |-> 196, DialingCode |-> "+357", Assignment |-> OFFICIALLY_ASSIGNED]],
  \* country-codes.go:933
  [key |-> "CZ", cc |-> [Name |-> "Czech Republic", Alpha2 |-> "CZ", Alpha3 |-> "CZE",
    Numeric |-> 203, DialingCode |-> "+420", Assignment |-> OFFICIALLY_ASSIGNED]],
  \* country-codes.go:947
  [key |-> "DE", cc |-> [Name |-> "Germany", Alpha2 |-> "DE", Alpha3 |-> "DEU",
    Numeric |-> 276, DialingCode |-> "+49", Assignment |-> OFFICIALLY_ASSIGNED]],
  \* country-codes.go:961
  [key |-> "DG", cc |-> [Name |-> "Diego Garcia", Alpha2 |-> "DG", Alpha3 |-> "DGA",
    Numeric |-> -1, DialingCode |-> "+246", Assignment |-> EXCEPTIONALLY_RESERVED]],
  \* country-codes.go:975
  [key |-> "DJ", cc |-> [Name |-> "Djibouti", Alpha2 |-> "DJ", Alpha3 |-> "DJI",
    Numeric |-> 262, DialingCode |-> "+253", Assignment |-> OFFICIALLY_ASSIGNED]],
  \* country-codes.go:989
  [key |-> "DK", cc |-> [Name |-> "Denmark", Alpha2 |-> "DK", Alpha3 |-> "DNK",
    Numeric |-> 208, DialingCode |-> "+45", Assignment |-> OFFICIALLY_ASSIGNED]],
  \* country-codes.go:1003
  [key |-> "DM", cc |-> [Name |-> "Dominica", Alpha2 |-> "DM", Alpha3 |-> "DMA",
    Numeric |-> 212, DialingCode |-> "+1-767", Assignment |-> OFFICIALLY_ASSIGNED]],
  \* country-codes.go:1017
  [key |-> "DO", cc |-> [Name |-> "Dominican Republic", Alpha2 |-> "DO", Alpha3 |-> "DOM",
    Numeric |-> 214, DialingCode |-> "+1-809, +1-829, +1-849", Assignment |-> OFFICIALLY_ASSIGNED]],
  \* country-codes.go:1031
  [key |-> "DZ", cc |-> [Name |-> "Algeria", Alpha2 |-> "DZ", Alpha3 |-> "DZA",
    Numeric |-> 12, DialingCode |-> "+213", Assignment |-> OFFICIALLY_ASSIGNED]],
  \* country-codes.go:1046
  [key |-> "EA", cc |-> [Name |-> "Ceuta, Melilla", Alpha2 |-> "EA", Alpha3 |-> "",
    Numeric |-> -1, DialingCode |-> "", Assignment |-> EXCEPTIONALLY_RESERVED]],
  \* country-codes.go:1060
  [key |-> "EC", cc |-> [Name |-> "Ecuador", Alpha2 |-> "EC", Alpha3 |-> "ECU",
    Numeric |-> 218, DialingCode |-> "+593", Assignment |-> OFFICIALLY_ASSIGNED]],
  \* country-codes.go:1074
  [key |-> "EE", cc |-> [Name |-> "Estonia", Alpha2 |-> "EE", Alpha3 |-> "EST",
    Numeric |-> 233, DialingCode |-> "+372", Assignment |-> OFFICIALLY_ASSIGNED]],
  \* country-codes.go:1088
  [key |-> "EG", cc |-> [Name |-> "Egypt", Alpha2 |-> "EG", Alpha3 |-> "EGY",
    Numeric |-> 818, DialingCode |-> "+20", Assignment |-> OFFICIALLY_ASSIGNED]],
  \* country-codes.go:1102
  [key |-> "EH", cc |-> [Name |-> "Western Sahara", Alpha2 |-> "EH", Alpha3 |-> "ESH",
    Numeric |-> 732, DialingCode |-> "+212", Assignment |-> OFFICIALLY_ASSIGNED]],
  \* country-codes.go:1116
  [key |-> "ER", cc |-> [Name |-> "Eritrea", Alpha2 |-> "ER", Alpha3 |-> "ERI",
    Numeric |-> 232, DialingCode |-> "+291", Assignment |-> OFFICIALLY_ASSIGNED]],
  \* country-codes.go:1130
  [key |-> "ES", cc |-> [Name |-> "Spain", Alpha2 |-> "ES", Alpha3 |-> "ESP",
    Numeric |-> 724, DialingCode |-> "+34", Assignment |-> OFFICIALLY_ASSIGNED]],
  \* country-codes.go:1144
  [key |-> "ET", cc |-> [Name |-> "Ethiopia", Alpha2 |-> "ET", Alpha3 |-> "ETH",
    Numeric |-> 231, DialingCode |-> "+251", Assignment |-> OFFICIALLY_ASSIGNED]],
  \* country-codes.go:1158
  [key |-> "EU", cc |-> [Name |-> "European Union", Alpha2 |-> "EU", Alpha3 |-> "",
    Numeric |-> -1, DialingCode |-> "", Assignment |-> EXCEPTIONALLY_RESERVED]],
  \* country-codes.go:1174
  [key |-> "FI", cc |-> [Name |-> "Finland", Alpha2 |-> "FI", Alpha3 |-> "FIN",
    Numeric |-> 246, DialingCode |-> "+358", Assignment |-> OFFICIALLY_ASSIGNED]],
  \* country-codes.go:1188
  [key |-> "FJ", cc |-> [Name |-> "Fiji", Alpha2 |-> "FJ", Alpha3 |-> "FJI",
    Numeric |-> 242, DialingCode |-> "+679", Assignment |-> OFFICIALLY_ASSIGNED]],
  \* country-codes.go:1202
  [key |-> "FK", cc |-> [Name |-> "Falkland Islands (Malvinas)", Alpha2 |-> "FK", Alpha3 |-> "FLK",
    Numeric |-> 238, DialingCode |-> "+500", Assignment |-> OFFICIALLY_ASSIGNED]],
  \* country-codes.go:1216
  [key |-> "FM", cc |-> [Name |-> "Micronesia, Federated States of", Alpha2 |-> "FM", Alpha3 |-> "FSM",
    Numeric |-> 583, DialingCode |-> "+691", Assignment |-> OFFICIALLY_ASSIGNED]],
  \* country-codes.go:1230
  [key |-> "FO", cc |-> [Name |-> "Faroe Islands", Alpha2 |-> "FO", Alpha3 |-> "FRO",
    Numeric |-> 234, DialingCode |-> "+298", Assignment |-> OFFICIALLY_ASSIGNED]],
  \* country-codes.go:1244
  [key |-> "FR", cc |-> [Name |-> "France", Alpha2 |-> "FR", Alpha3 |-> "FRA",
    Numeric |-> 250, DialingCode |-> "+33", Assignment |-> OFFICIALLY_ASSIGNED]],
  \* country-codes.go:1258
  [key |-> "FX", cc |-> [Name |-> "France, Metropolitan", Alpha2 |-> "FX", Alpha3 |-> "FXX",
    Numeric |-> -1, DialingCode |-> "", Assignment |-> EXCEPTIONALLY_RESERVED]],
  \* country-codes.go:1272
  [key |-> "GA", cc |-> [Name |-> "Gabon", Alpha2 |-> "GA", Alpha3 |-> "GAB",
    Numeric |-> 266, DialingCode |-> "+241", Assignment |-> OFFICIALLY_ASSIGNED]],
  \* country-codes.go:1286
  [key |-> "GB", cc |-> [Name |-> "United Kingdom", Alpha2 |-> "GB", Alpha3 |-> "GBR",
    Numeric |-> 826, DialingCode |-> "+44", Assignment |-> OFFICIALLY_ASSIGNED]],
  \* country-codes.go:1300
  [key |-> "GD", cc |-> [Name |-> "Grenada", Alpha2 |-> "GD", Alpha3 |-> "GRD",
    Numeric |-> 308, DialingCode |-> "+1-473", Assignment |-> OFFICIALLY_ASSIGNED]],
  \* country-codes.go:1314
  [key |-> "GE", cc |-> [Name |-> "Georgia", Alpha2 |-> "GE", Alpha3 |-> "GEO",
    Numeric |-> 268, DialingCode |-> "+995", Assignment |-> OFFICIALLY_ASSIGNED]],
  \* country-codes.go:1328
  [key |-> "GF", cc |-> [Name |-> "French Guiana", Alpha2 |-> "GF", Alpha3 |-> "GUF",
    Numeric |-> 254, DialingCode |-> "+594", Assignment |-> OFFICIALLY_ASSIGNED]],
  \* country-codes.go:1342
  [key |-> "GG", cc |-> [Name |-> "Guernsey", Alpha2 |-> "GG", Alpha3 |-> "GGY",
    Numeric |-> 831, DialingCode |-> "+44-1481", Assignment |-> OFFICIALLY_ASSIGNED]],
  \* country-codes.go:1356
  [key |-> "GH", cc |-> [Name |-> "Ghana", Alpha2 |-> "GH", Alpha3 |-> "GHA",
    Numeric |-> 288, DialingCode |-> "+233", Assignment |-> OFFICIALLY_ASSIGNED]],
  \* country-codes.go:1370
  [key |-> "GI", cc |-> [Name |-> "Gibraltar", Alpha2 |-> "GI", Alpha3 |-> "GIB",
    Numeric |-> 292, DialingCode |-> "+350", Assignment |-> OFFICIALLY_ASSIGNED]],
  \* country-codes.go:1384
  [key |-> "GL", cc |-> [Name |-> "Greenland", Alpha2 |-> "GL", Alpha3 |-> "GRL",
    Numeric |-> 304, DialingCode |-> "+299", Assignment |-> OFFICIALLY_ASSIGNED]],
  \* country-codes.go:1398
  [key |-> "GM", cc |-> [Name |-> "Gambia", Alpha2 |-> "GM", Alpha3 |-> "GMB",
    Numeric |-> 270, DialingCode |-> "+220", Assignment |-> OFFICIALLY_ASSIGNED]],
  \* country-codes.go:1412
  [key |-> "GN", cc |-> [Name |-> "Guinea", Alpha2 |-> "GN", Alpha3 |-> "GIN",
    Numeric |-> 324, DialingCode |-> "+224", Assignment |-> OFFICIALLY_ASSIGNED]],
  \* country-codes.go:1426
  [key |-> "GP", cc |-> [Name |-> "Guadeloupe", Alpha2 |-> "GP", Alpha3 |-> "GLP",
    Numeric |-> 312, DialingCode |-> "+590", Assignment |-> OFFICIALLY_ASSIGNED]],
  \* country-codes.go:1440
  [key |-> "GQ", cc |-> [Name |-> "Equatorial Guinea", Alpha2 |-> "GQ", Alpha3 |-> "GNQ",
    Numeric |-> 226, DialingCode |-> "+240", Assignment |-> OFFICIALLY_ASSIGNED]],
  \* country-codes.go:1454
  [key |-> "GR", cc |-> [Name |-> "Greece", Alpha2 |-> "GR", Alpha3 |-> "GRC",
    Numeric |-> 300, DialingCode |-> "+30", Assignment |-> OFFICIALLY_ASSIGNED]],
  \* country-codes.go:1468
  [key |-> "GS", cc |-> [Name |-> "South Georgia and the South Sandwich Islands", Alpha2 |-> "GS", Alpha3 |-> "SGS",
    Numeric |-> 239, DialingCode |-> "+500", Assignment |-> OFFICIALLY_ASSIGNED]],
  \* country-codes.go:1482
  [key |-> "GT", cc |-> [Name |-> "Guatemala", Alpha2 |-> "GT", Alpha3 |-> "GTM",
    Numeric |-> 320, DialingCode |-> "+502", Assignment |-> OFFICIALLY_ASSIGNED]],
  \* country-codes.go:1496
  [key |-> "GU", cc |-> [Name |-> "Guam", Alpha2 |-> "GU", Alpha3 |-> "GUM",
    Numeric |-> 316, DialingCode |-> "+1-671", Assignment |-> OFFICIALLY_ASSIGNED]],
  \* country-codes.go:1510
  [key |-> "GW", cc |-> [Name |-> "Guinea-Bissau", Alpha2 |-> "GW", Alpha3 |-> "GNB",
    Numeric |-> 624, DialingCode |-> "+245", Assignment |-> OFFICIALLY_ASSIGNED]],
  \* country-codes.go:1524
  [key |-> "GY", cc |-> [Name |-> "Guyana", Alpha2 |-> "GY", Alpha3 |-> "GUY",
    Numeric |-> 328, DialingCode |-> "+592", Assignment |-> OFFICIALLY_ASSIGNED]],
  \* country-codes.go:1538
  [key |-> "HK", cc |-> [Name |-> "Hong Kong", Alpha2 |-> "HK", Alpha3 |-> "HKG",
    Numeric |-> 344, DialingCode |-> "+852", Assignment |-> OFFICIALLY_ASSIGNED]],
  \* country-codes.go:1552
  [key |-> "HM", cc |-> [Name |-> "Heard Island and McDonald Islands", Alpha2 |-> "HM", Alpha3 |-> "HMD",
    Numeric |-> 334, DialingCode |-> "", Assignment |-> OFFICIALLY_ASSIGNED]],
  \* country-codes.go:1566
  [key |-> "HN", cc |-> [Name |-> "Honduras", Alpha2 |-> "HN", Alpha3 |-> "HND",
    Numeric |-> 340, DialingCode |-> "+504", Assignment |-> OFFICIALLY_ASSIGNED]],
  \* country-codes.go:1580
  [key |-> "HR", cc |-> [Name |-> "Croatia", Alpha2 |-> "HR", Alpha3 |-> "HRV",
    Numeric |-> 191, DialingCode |-> "+385", Assignment |-> OFFICIALLY_ASSIGNED]],
  \* country-codes.go:1594
  [key |-> "HT", cc |-> [Name |-> "Haiti", Alpha2 |-> "HT", Alpha3 |-> "HTI",
    Numeric |-> 332, DialingCode |-> "+509", Assignment |-> OFFICIALLY_ASSIGNED]],
  \* country-codes.go:1608
  [key |-> "HU", cc |-> [Name |-> "Hungary", Alpha2 |-> "HU", Alpha3 |-> "HUN",
    Numeric |-> 348, DialingCode |-> "+36", Assignment |-> OFFICIALLY_ASSIGNED]],
  \* country-codes.go:1622
  [key |-> "IC", cc |-> [Name |-> "Canary Islands", Alpha2 |-> "IC", Alpha3 |-> "",
    Numeric |-> -1, DialingCode |-> "", Assignment |-> EXCEPTIONALLY_RESERVED]],
  \* country-codes.go:1636
  [key |-> "ID", cc |-> [Name |-> "Indonesia", Alpha2 |-> "ID", Alpha3 |-> "IDN",
    Numeric |-> 360, DialingCode |-> "+62", Assignment |-> OFFICIALLY_ASSIGNED]],
  \* country-codes.go:1650
  [key |-> "IE", cc |-> [Name |-> "Ireland", Alpha2 |-> "IE", Alpha3 |-> "IRL",
    Numeric |-> 372, DialingCode |-> "+353", Assignment |-> OFFICIALLY_ASSIGNED]],
  \* country-codes.go:1664
  [key |-> "IL", cc |-> [Name |-> "Israel", Alpha2 |-> "IL", Alpha3 |-> "ISR",
    Numeric |-> 376, DialingCode |-> "+972", Assignment |-> OFFICIALLY_ASSIGNED]],
  \* country-codes.go:1678
  [key |-> "IM", cc |-> [Name |-> "Isle of Man", Alpha2 |-> "IM", Alpha3 |-> "IMN",
    Numeric |-> 833, DialingCode |-> "+44-1624", Assignment |-> OFFICIALLY_ASSIGNED]],
  \* country-codes.go:1692
  [key |-> "IN", cc |-> [Name |-> "India", Alpha2 |-> "IN", Alpha3 |-> "IND",
    Numeric |-> 356, DialingCode |-> "+91", Assignment |-> OFFICIALLY_ASSIGNED]],
  \* country-codes.go:1706
  [key |-> "IO", cc |-> [Name |-> "British Indian Ocean Territory", Alpha2 |-> "IO", Alpha3 |-> "IOT",
    Numeric |-> 86, DialingCode |-> "+246", Assignment |-> OFFICIALLY_ASSIGNED]],
  \* country-codes.go:1720
  [key |-> "IQ", cc |-> [Name |-> "Iraq", Alpha2 |-> "IQ", Alpha3 |-> "IRQ",
    Numeric |-> 368, DialingCode |-> "+964", Assignment |-> OFFICIALLY_ASSIGNED]],
  \* country-codes.go:1734
  [key |-> "IR", cc |-> [Name |-> "Iran, Islamic Republic of", Alpha2 |-> "IR", Alpha3 |-> "IRN",
    Numeric |-> 364, DialingCode |-> "+98", Assignment |-> OFFICIALLY_ASSIGNED]],
  \* country-codes.go:1748
  [key |-> "IS", cc |-> [Name |-> "Iceland", Alpha2 |-> "IS", Alpha3 |-> "ISL",
    Numeric |-> 352, DialingCode |-> "+354", Assignment |-> OFFICIALLY_ASSIGNED]],
  \* country-codes.go:1762
  [key |-> "IT", cc |-> [Name |-> "Italy", Alpha2 |-> "IT", Alpha3 |-> "ITA",
    Numeric |-> 380, DialingCode |-> "+39", Assignment |-> OFFICIALLY_ASSIGNED]],
  \* country-codes.go:1775
  [key |-> "JE", cc |-> [Name |-> "Jersey", Alpha2 |-> "JE", Alpha3 |-> "JEY",
    Numeric |-> 832, DialingCode |-> "+44-1534", Assignment |-> OFFICIALLY_ASSIGNED]],
  \* country-codes.go:1789
  [key |-> "JM", cc |-> [Name |-> "Jamaica", Alpha2 |-> "JM", Alpha3 |-> "JAM",
    Numeric |-> 388, DialingCode |-> "+1-876", Assignment |-> OFFICIALLY_ASSIGNED]],
  \* country-codes.go:1803
  [key |-> "JO", cc |-> [Name |-> "Jordan", Alpha2 |-> "JO", Alpha3 |-> "JOR",
    Numeric |-> 400, DialingCode |-> "+962", Assignment |-> OFFICIALLY_ASSIGNED]],
  \* country-codes.go:1817
  [key |-> "JP", cc |-> [Name |-> "Japan", Alpha2 |-> "JP", Alpha3 |-> "JPN",
    Numeric |-> 392, DialingCode |-> "+81", Assignment |-> OFFICIALLY_ASSIGNED]],
  \* country-codes.go:1830
  [key |-> "KE", cc |-> [Name |-> "Kenya", Alpha2 |-> "KE", Alpha3 |-> "KEN",
    Numeric |-> 404, DialingCode |-> "+254", Assignment |-> OFFICIALLY_ASSIGNED]],
  \* country-codes.go:1844
  [key |-> "KG", cc |-> [Name |-> "Kyrgyzstan", Alpha2 |-> "KG", Alpha3 |-> "KGZ",
    Numeric |-> 417, DialingCode |-> "+996", Assignment |-> OFFICIALLY_ASSIGNED]],
  \* country-codes.go:1858
  [key |-> "KH", cc |-> [Name |-> "Cambodia", Alpha2 |-> "KH", Alpha3 |-> "KHM",
    Numeric |-> 116, DialingCode |-> "+855", Assignment |-> OFFICIALLY_ASSIGNED]],
  \* country-codes.go:1872
  [key |-> "KI", cc |-> [Name |-> "Kiribati", Alpha2 |-> "KI", Alpha3 |-> "KIR",
    Numeric |-> 296, DialingCode |-> "+686", Assignment |-> OFFICIALLY_ASSIGNED]],
  \* country-codes.go:1886
  [key |-> "KM", cc |-> [Name |-> "Comoros", Alpha2 |-> "KM", Alpha3 |-> "COM",
    Numeric |-> 174, DialingCode |-> "+269", Assignment |-> OFFICIALLY_ASSIGNED]],
  \* country-codes.go:1900
  [key |-> "KN", cc |-> [Name |-> "Saint Kitts and Nevis", Alpha2 |-> "KN", Alpha3 |-> "KNA",
    Numeric |-> 659, DialingCode |-> "+1-869", Assignment |-> OFFICIALLY_ASSIGNED]],
  \* country-codes.go:1914
  [key |-> "KP", cc |-> [Name |-> "Korea, Democratic People's Republic of", Alpha2 |-> "KP", Alpha3 |-> "PRK",
    Numeric |-> 408, DialingCode |-> "+850", Assignment |-> OFFICIALLY_ASSIGNED]],
  \* country-codes.go:1928
  [key |-> "KR", cc |-> [Name |-> "Korea, Republic of", Alpha2 |-> "KR", Alpha3 |-> "KOR",
    Numeric |-> 410, DialingCode |-> "+82", Assignment |-> OFFICIALLY_ASSIGNED]],
  \* country-codes.go:1942
  [key |-> "KW", cc |-> [Name |-> "Kuwait", Alpha2 |-> "KW", Alpha3 |-> "KWT",
    Numeric |-> 414, DialingCode |-> "+965", Assignment |-> OFFICIALLY_ASSIGNED]],
  \* country-codes.go:1956
  [key |-> "KY", cc |-> [Name |-> "Cayman Islands", Alpha2 |-> "KY", Alpha3 |-> "CYM",
    Numeric |-> 136, DialingCode |-> "+1-345", Assignment |-> OFFICIALLY_ASSIGNED]],
  \* country-codes.go:1970
  [key |-> "KZ", cc |-> [Name |-> "Kazakhstan", Alpha2 |-> "KZ", Alpha3 |-> "KAZ",
    Numeric |-> 398, DialingCode |-> "+7", Assignment |-> OFFICIALLY_ASSIGNED]],
  \* country-codes.go:1984
  [key |-> "LA", cc |-> [Name |-> "Lao People's Democratic Republic", Alpha2 |-> "LA", Alpha3 |-> "LAO",
    Numeric |-> 418, DialingCode |-> "+856", Assignment |-> OFFICIALLY_ASSIGNED]],
  \* country-codes.go:1998
  [key |-> "LB", cc |-> [Name |-> "Lebanon", Alpha2 |-> "LB", Alpha3 |-> "LBN",
    Numeric |-> 422, DialingCode |-> "+961", Assignment |-> OFFICIALLY_ASSIGNED]],
  \* country-codes.go:2012
  [key |-> "LC", cc |-> [Name |-> "Saint Lucia", Alpha2 |-> "LC", Alpha3 |-> "LCA",
    Numeric |-> 662, DialingCode |-> "+1-758", Assignment |-> OFFICIALLY_ASSIGNED]],
  \* country-codes.go:2026
  [key |-> "LI", cc |-> [Name |-> "Liechtenstein", Alpha2 |-> "LI", Alpha3 |-> "LIE",
    Numeric |-> 438, DialingCode |-> "+423", Assignment |-> OFFICIALLY_ASSIGNED]],
  \* country-codes.go:2040
  [key |-> "LK", cc |-> [Name |-> "Sri Lanka", Alpha2 |-> "LK", Alpha3 |-> "LKA",
    Numeric |-> 144, DialingCode |-> "+94", Assignment |-> OFFICIALLY_ASSIGNED]],
  \* country-codes.go:2054
  [key |-> "LR", cc |-> [Name |-> "Liberia", Alpha2 |-> "LR", Alpha3 |-> "LBR",
    Numeric |-> 430, DialingCode |-> "+231", Assignment |-> OFFICIALLY_ASSIGNED]],
  \* country-codes.go:2068
  [key |-> "LS", cc |-> [Name |-> "Lesotho", Alpha2 |-> "LS", Alpha3 |-> "LSO",
    Numeric |-> 426, DialingCode |-> "+266", Assignment |-> OFFICIALLY_ASSIGNED]],
  \* country-codes.go:2082
  [key |-> "LT", cc |-> [Name |-> "Lithuania", Alpha2 |-> "LT", Alpha3 |-> "LTU",
    Numeric |-> 440, DialingCode |-> "+370", Assignment |-> OFFICIALLY_ASSIGNED]],
  \* country-codes.go:2096
  [key |-> "LU", cc |-> [Name |-> "Luxembourg", Alpha2 |-> "LU", Alpha3 |-> "LUX",
    Numeric |-> 442, DialingCode |-> "+352", Assignment |-> OFFICIALLY_ASSIGNED]],
  \* country-codes.go:2110
  [key |-> "LV", cc |-> [Name |-> "Latvia", Alpha2 |-> "LV", Alpha3 |-> "LVA",
    Numeric |-> 428, DialingCode |-> "+371", Assignment |-> OFFICIALLY_ASSIGNED]],
  \* country-codes.go:2124
  [key |-> "LY", cc |-> [Name |-> "Libya", Alpha2 |-> "LY", Alpha3 |-> "LBY",
    Numeric |-> 434, DialingCode |-> "+218", Assignment |-> OFFICIALLY_ASSIGNED]],
  \* country-codes.go:2138
  [key |-> "MA", cc |-> [Name |-> "Morocco", Alpha2 |-> "MA", Alpha3 |-> "MAR",
    Numeric |-> 504, DialingCode |-> "+212", Assignment |-> OFFICIALLY_ASSIGNED]],
  \* country-codes.go:2152
  [key |-> "MC", cc |-> [Name |-> "Monaco", Alpha2 |-> "MC", Alpha3 |-> "MCO",
    Numeric |-> 492, DialingCode |-> "+377", Assignment |-> OFFICIALLY_ASSIGNED]],
  \* country-codes.go:2166
  [key |-> "MD", cc |-> [Name |-> "Moldova, Republic of", Alpha2 |-> "MD", Alpha3 |-> "MDA",
    Numeric |-> 498, DialingCode |-> "+373", Assignment |-> OFFICIALLY_ASSIGNED]],
  \* country-codes.go:2180
  [key |-> "ME", cc |-> [Name |-> "Montenegro", Alpha2 |-> "ME", Alpha3 |-> "MNE",
    Numeric |-> 499, DialingCode |-> "+382", Assignment |-> OFFICIALLY_ASSIGNED]],
  \* country-codes.go:2194
  [key |-> "MF", cc |-> [Name |-> "Saint Martin (French part)", Alpha2 |-> "MF", Alpha3 |-> "MAF",
    Numeric |-> 663, DialingCode |-> "+590", Assignment |-> OFFICIALLY_ASSIGNED]],
  \* country-codes.go:2208
  [key |-> "MG", cc |-> [Name |-> "Madagascar", Alpha2 |-> "MG", Alpha3 |-> "MDG",
    Numeric |-> 450, DialingCode |-> "+261", Assignment |-> OFFICIALLY_ASSIGNED]],
  \* country-codes.go:2222
  [key |-> "MH", cc |-> [Name |-> "Marshall Islands", Alpha2 |-> "MH", Alpha3 |-> "MHL",
    Numeric |-> 584, DialingCode |-> "+692", Assignment |-> OFFICIALLY_ASSIGNED]],
  \* country-codes.go:2236
  [key |-> "MK", cc |-> [Name |-> "Macedonia, the former Yugoslav Republic of", Alpha2 |-> "MK", Alpha3 |-> "MKD",
    Numeric |-> 807, DialingCode |-> "+389", Assignment |-> OFFICIALLY_ASSIGNED]],
  \* country-codes.go:2250
  [key |-> "ML", cc |-> [Name |-> "Mali", Alpha2 |-> "ML", Alpha3 |-> "MLI",
    Numeric |-> 466, DialingCode |-> "+223", Assignment |-> OFFICIALLY_ASSIGNED]],
  \* country-codes.go:2266
  [key |-> "MM", cc |-> [Name |-> "Myanmar", Alpha2 |-> "MM", Alpha3 |-> "MMR",
    Numeric |-> 104, DialingCode |-> "+95", Assignment |-> OFFICIALLY_ASSIGNED]],
  \* country-codes.go:2280
  [key |-> "MN", cc |-> [Name |-> "Mongolia", Alpha2 |-> "MN", Alpha3 |-> "MNG",
    Numeric |-> 496, DialingCode |-> "+976", Assignment |-> OFFICIALLY_ASSIGNED]],
  \* country-codes.go:2294
  [key |-> "MO", cc |-> [Name |-> "Macao", Alpha2 |-> "MO", Alpha3 |-> "MAC",
    Numeric |-> 446, DialingCode |-> "+853", Assignment |-> OFFICIALLY_ASSIGNED]],
  \* country-codes.go:2308
  [key |-> "MP", cc |-> [Name |-> "Northern Mariana Islands", Alpha2 |-> "MP", Alpha3 |-> "MNP",
    Numeric |-> 580, DialingCode |-> "+1-670", Assignment |-> OFFICIALLY_ASSIGNED]],
  \* country-codes.go:2322
  [key |-> "MQ", cc |-> [Name |-> "Martinique", Alpha2 |-> "MQ", Alpha3 |-> "MTQ",
    Numeric |-> 474, DialingCode |-> "+596", Assignment |-> OFFICIALLY_ASSIGNED]],
  \* country-codes.go:2336
  [key |-> "MR", cc |-> [Name |-> "Mauritania", Alpha2 |-> "MR", Alpha3 |-> "MRT",
    Numeric |-> 478, DialingCode |-> "+222", Assignment |-> OFFICIALLY_ASSIGNED]],
  \* country-codes.go:2350
  [key |-> "MS", cc |-> [Name |-> "Montserrat", Alpha2 |-> "MS", Alpha3 |-> "MSR",
    Numeric |-> 500, DialingCode |-> "+1-664", Assignment |-> OFFICIALLY_ASSIGNED]],
  \* country-codes.go:2364
  [key |-> "MT", cc |-> [Name |-> "Malta", Alpha2 |-> "MT", Alpha3 |-> "MLT",
    Numeric |-> 470, DialingCode |-> "+356", Assignment |-> OFFICIALLY_ASSIGNED]],
  \* country-codes.go:2378
  [key |-> "MU", cc |-> [Name |-> "Mauritius", Alpha2 |-> "MU", Alpha3 |-> "MUS",
    Numeric |-> 480, DialingCode |-> "+230", Assignment |-> OFFICIALLY_ASSIGNED]],
  \* country-codes.go:2392
  [key |-> "MV", cc |-> [Name |-> "Maldives", Alpha2 |-> "MV", Alpha3 |-> "MDV",
    Numeric |-> 462, DialingCode |-> "+960", Assignment |-> OFFICIALLY_ASSIGNED]],
  \* country-codes.go:2406
  [key |-> "MW", cc |-> [Name |-> "Malawi", Alpha2 |-> "MW", Alpha3 |-> "MWI",
    Numeric |-> 454, DialingCode |-> "+265", Assignment |-> OFFICIALLY_ASSIGNED]],
  \* country-codes.go:2420
  [key |-> "MX", cc |-> [Name |-> "Mexico", Alpha2 |-> "MX", Alpha3 |-> "MEX",
    Numeric |-> 484, DialingCode |-> "+52", Assignment |-> OFFICIALLY_ASSIGNED]],
  \* country-codes.go:2434
  [key |-> "MY", cc |-> [Name |-> "Malaysia", Alpha2 |-> "MY", Alpha3 |-> "MYS",
    Numeric |-> 458, DialingCode |-> "+60", Assignment |-> OFFICIALLY_ASSIGNED]],
  \* country-codes.go:2448
  [key |-> "MZ", cc |-> [Name |-> "Mozambique", Alpha2 |-> "MZ", Alpha3 |-> "MOZ",
    Numeric |-> 508, DialingCode |-> "+258", Assignment |-> OFFICIALLY_ASSIGNED]],
  \* country-codes.go:2462
  [key |-> "NA", cc |-> [Name |-> "Namibia", Alpha2 |-> "NA", Alpha3 |-> "NAM",
    Numeric |-> 516, DialingCode |-> "+264", Assignment |-> OFFICIALLY_ASSIGNED]],
  \* country-codes.go:2476
  [key |-> "NC", cc |-> [Name |-> "New Caledonia", Alpha2 |-> "NC", Alpha3 |-> "NCL",
    Numeric |-> 540, DialingCode |-> "+687", Assignment |-> OFFICIALLY_ASSIGNED]],
  \* country-codes.go:2490
  [key |-> "NE", cc |-> [Name |-> "Niger", Alpha2 |-> "NE", Alpha3 |-> "NER",
    Numeric |-> 562, DialingCode |-> "+227", Assignment |-> OFFICIALLY_ASSIGNED]],
  \* country-codes.go:2504
  [key |-> "NF", cc |-> [Name |-> "Norfolk Island", Alpha2 |-> "NF", Alpha3 |-> "NFK",
    Numeric |-> 574, DialingCode |-> "+672", Assignment |-> OFFICIALLY_ASSIGNED]],
  \* country-codes.go:2518
  [key |-> "NG", cc |-> [Name |-> "Nigeria", Alpha2 |-> "NG", Alpha3 |-> "NGA",
    Numeric |-> 566, DialingCode |-> "+234", Assignment |-> OFFICIALLY_ASSIGNED]],
  \* country-codes.go:2532
  [key |-> "NI", cc |-> [Name |-> "Nicaragua", Alpha2 |-> "NI", Alpha3 |-> "NIC",
    Numeric |-> 558, DialingCode |-> "+505", Assignment |-> OFFICIALLY_ASSIGNED]],
  \* country-codes.go:2546
  [key |-> "NL", cc |-> [Name |-> "Netherlands", Alpha2 |-> "NL", Alpha3 |-> "NLD",
    Numeric |-> 528, DialingCode |-> "+31", Assignment |-> OFFICIALLY_ASSIGNED]],
  \* country-codes.go:2560
  [key |-> "NO", cc |-> [Name |-> "Norway", Alpha2 |-> "NO", Alpha3 |-> "NOR",
    Numeric |-> 578, DialingCode |-> "+47", Assignment |-> OFFICIALLY_ASSIGNED]],
  \* country-codes.go:2574
  [key |-> "NP", cc |-> [Name |-> "Nepal", Alpha2 |-> "NP", Alpha3 |-> "NPL",
    Numeric |-> 524, DialingCode |-> "+977", Assignment |-> OFFICIALLY_ASSIGNED]],
  \* country-codes.go:2588
  [key |-> "NR", cc |-> [Name |-> "Nauru", Alpha2 |-> "NR", Alpha3 |-> "NRU",
    Numeric |-> 520, DialingCode |-> "+674", Assignment |-> OFFICIALLY_ASSIGNED]],
  \* country-codes.go:2602
  [key |-> "NT", cc |-> [Name |-> "Neutral Zone", Alpha2 |-> "NT", Alpha3 |-> "NTHH",
    Numeric |-> 536, DialingCode |-> "", Assignment |-> TRANSITIONALLY_RESERVED]],
  \* country-codes.go:2616
  [key |-> "NU", cc |-> [Name |-> "Niue", Alpha2 |-> "NU", Alpha3 |-> "NIU",
    Numeric |-> 570, DialingCode |-> "+683", Assignment |-> OFFICIALLY_ASSIGNED]],
  \* country-codes.go:2630
  [key |-> "NZ", cc |-> [Name |-> "New Zealand", Alpha2 |-> "NZ", Alpha3 |-> "NZL",
    Numeric |-> 554, DialingCode |-> "+64", Assignment |-> OFFICIALLY_ASSIGNED]],
  \* country-codes.go:2644
  [key |-> "OM", cc |-> [Name |-> "Oman", Alpha2 |-> "OM", Alpha3 |-> "OMN",
    Numeric |-> 512, DialingCode |-> "+968", Assignment |-> OFFICIALLY_ASSIGNED]],
  \* country-codes.go:2658
  [key |-> "PA", cc |-> [Name |-> "Panama", Alpha2 |-> "PA", Alpha3 |-> "PAN",
    Numeric |-> 591, DialingCode |-> "+507", Assignment |-> OFFICIALLY_ASSIGNED]],
  \* country-codes.go:2672
  [key |-> "PE", cc |-> [Name |-> "Peru", Alpha2 |-> "PE", Alpha3 |-> "PER",
    Numeric |-> 604, DialingCode |-> "+51", Assignment |-> OFFICIALLY_ASSIGNED]],
  \* country-codes.go:2686
  [key |-> "PF", cc |-> [Name |-> "French Polynesia", Alpha2 |-> "PF", Alpha3 |-> "PYF",
    Numeric |-> 258, DialingCode |-> "+689", Assignment |-> OFFICIALLY_ASSIGNED]],
  \* country-codes.go:2700
  [key |-> "PG", cc |-> [Name |-> "Papua New Guinea", Alpha2 |-> "PG", Alpha3 |-> "PNG",
    Numeric |-> 598, DialingCode |-> "+675", Assignment |-> OFFICIALLY_ASSIGNED]],
  \* country-codes.go:2714
  [key |-> "PH", cc |-> [Name |-> "Philippines", Alpha2 |-> "PH", Alpha3 |-> "PHL",
    Numeric |-> 608, DialingCode |-> "+63", Assignment |-> OFFICIALLY_ASSIGNED]],
  \* country-codes.go:2728
  [key |-> "PK", cc |-> [Name |-> "Pakistan", Alpha2 |-> "PK", Alpha3 |-> "PAK",
    Numeric |-> 586, DialingCode |-> "+92", Assignment |-> OFFICIALLY_ASSIGNED]],
  \* country-codes.go:2742
  [key |-> "PL", cc |-> [Name |-> "Poland", Alpha2 |-> "PL", Alpha3 |-> "POL",
    Numeric |-> 616, DialingCode |-> "+48", Assignment |-> OFFICIALLY_ASSIGNED]],
  \* country-codes.go:2756
  [key |-> "PM", cc |-> [Name |-> "Saint Pierre and Miquelon", Alpha2 |-> "PM", Alpha3 |-> "SPM",
    Numeric |-> 666, DialingCode |-> "+508", Assignment |-> OFFICIALLY_ASSIGNED]],
  \* country-codes.go:2770
  [key |-> "PN", cc |-> [Name |-> "Pitcairn", Alpha2 |-> "PN", Alpha3 |-> "PCN",
    Numeric |-> 612, DialingCode |-> "+64", Assignment |-> OFFICIALLY_ASSIGNED]],
  \* country-codes.go:2784
  [key |-> "PR", cc |-> [Name |-> "Puerto Rico", Alpha2 |-> "PR", Alpha3 |-> "PRI",
    Numeric |-> 630, DialingCode |-> "+1-787, +1-939", Assignment |-> OFFICIALLY_ASSIGNED]],
  \* country-codes.go:2798
  [key |-> "PS", cc |-> [Name |-> "Palestine, State of", Alpha2 |-> "PS", Alpha3 |-> "PSE",
    Numeric |-> 275, DialingCode |-> "+970", Assignment |-> OFFICIALLY_ASSIGNED]],
  \* country-codes.go:2812
  [key |-> "PT", cc |-> [Name |-> "Portugal", Alpha2 |-> "PT", Alpha3 |-> "PRT",
    Numeric |-> 620, DialingCode |-> "+351", Assignment |-> OFFICIALLY_ASSIGNED]],
  \* country-codes.go:2826
  [key |-> "PW", cc |-> [Name |-> "Palau", Alpha2 |-> "PW", Alpha3 |-> "PLW",
    Numeric |-> 585, DialingCode |-> "+680", Assignment |-> OFFICIALLY_ASSIGNED]],
  \* country-codes.go:2840
  [key |-> "PY", cc |-> [Name |-> "Paraguay", Alpha2 |-> "PY", Alpha3 |-> "PRY",
    Numeric |-> 600, DialingCode |-> "+595", Assignment |-> OFFICIALLY_ASSIGNED]],
  \* country-codes.go:2854
  [key |-> "QA", cc |-> [Name |-> "Qatar", Alpha2 |-> "QA", Alpha3 |-> "QAT",
    Numeric |-> 634, DialingCode |-> "+974", Assignment |-> OFFICIALLY_ASSIGNED]],
  \* country-codes.go:2868
  [key |-> "RE", cc |-> [Name |-> "R\\u00E9union", Alpha2 |-> "RE", Alpha3 |-> "REU",
    Numeric |-> 638, DialingCode |-> "+262", Assignment |-> OFFICIALLY_ASSIGNED]],
  \* country-codes.go:2882
  [key |-> "RO", cc |-> [Name |-> "Romania", Alpha2 |-> "RO", Alpha3 |-> "ROU",
    Numeric |-> 642, DialingCode |-> "+40", Assignment |-> OFFICIALLY_ASSIGNED]],
  \* country-codes.go:2896
  [key |-> "RS", cc |-> [Name |-> "Serbia", Alpha2 |-> "RS", Alpha3 |-> "SRB",
    Numeric |-> 688, DialingCode |-> "+381", Assignment |-> OFFICIALLY_ASSIGNED]],
  \* country-codes.go:2910
  [key |-> "RU", cc |-> [Name |-> "Russian Federation", Alpha2 |-> "RU", Alpha3 |-> "RUS",
    Numeric |-> 643, DialingCode |-> "+7", Assignment |-> OFFICIALLY_ASSIGNED]],
  \* country-codes.go:2924
  [key |-> "RW", cc |-> [Name |-> "Rwanda", Alpha2 |-> "RW", Alpha3 |-> "RWA",
    Numeric |-> 646, DialingCode |-> "+250", Assignment |-> OFFICIALLY_ASSIGNED]],
  \* country-codes.go:2938
  [key |-> "SA", cc |-> [Name |-> "Saudi Arabia", Alpha2 |-> "SA", Alpha3 |-> "SAU",
    Numeric |-> 682, DialingCode |-> "+966", Assignment |-> OFFICIALLY_ASSIGNED]],
  \* country-codes.go:2952
  [key |-> "SB", cc |-> [Name |-> "Solomon Islands", Alpha2 |-> "SB", Alpha3 |-> "SLB",
    Numeric |-> 90, DialingCode |-> "+677", Assignment |-> OFFICIALLY_ASSIGNED]],
  \* country-codes.go:2966
  [key |-> "SC", cc |-> [Name |-> "Seychelles", Alpha2 |-> "SC", Alpha3 |-> "SYC",
    Numeric |-> 690, DialingCode |-> "+248", Assignment |-> OFFICIALLY_ASSIGNED]],
  \* country-codes.go:2980
  [key |-> "SD", cc |-> [Name |-> "Sudan", Alpha2 |-> "SD", Alpha3 |-> "SDN",
    Numeric |-> 729, DialingCode |-> "+249", Assignment |-> OFFICIALLY_ASSIGNED]],
  \* country-codes.go:2994
  [key |-> "SE", cc |-> [Name |-> "Sweden", Alpha2 |-> "SE", Alpha3 |-> "SWE",
    Numeric |-> 752, DialingCode |-> "+46", Assignment |-> OFFICIALLY_ASSIGNED]],
  \* country-codes.go:3010
  [key |-> "SF", cc |-> [Name |-> "Finland", Alpha2 |-> "SF", Alpha3 |-> "FIN",
    Numeric |-> 246, DialingCode |-> "+358", Assignment |-> TRANSITIONALLY_RESERVED]],
  \* country-codes.go:3024
  [key |-> "SG", cc |-> [Name |-> "Singapore", Alpha2 |-> "SG", Alpha3 |-> "SGP",
    Numeric |-> 702, DialingCode |-> "+65", Assignment |-> OFFICIALLY_ASSIGNED]],
  \* country-codes.go:3038
  [key |-> "SH", cc |-> [Name |-> "Saint Helena, Ascension and Tristan da Cunha", Alpha2 |-> "SH", Alpha3 |-> "SHN",
    Numeric |-> 654, DialingCode |-> "+290", Assignment |-> OFFICIALLY_ASSIGNED]],
  \* country-codes.go:3052
  [key |-> "SI", cc |-> [Name |-> "Slovenia", Alpha2 |-> "SI", Alpha3 |-> "SVN",
    Numeric |-> 705, DialingCode |-> "+386", Assignment |-> OFFICIALLY_ASSIGNED]],
  \* country-codes.go:3066
  [key |-> "SJ", cc |-> [Name |-> "Svalbard and Jan Mayen", Alpha2 |-> "SJ", Alpha3 |-> "SJM",
    Numeric |-> 744, DialingCode |-> "+47", Assignment |-> OFFICIALLY_ASSIGNED]],
  \* country-codes.go:3080
  [key |-> "SK", cc |-> [Name |-> "Slovakia", Alpha2 |-> "SK", Alpha3 |-> "SVK",
    Numeric |-> 703, DialingCode |-> "+421", Assignment |-> OFFICIALLY_ASSIGNED]],
  \* country-codes.go:3094
  [key |-> "SL", cc |-> [Name |-> "Sierra Leone", Alpha2 |-> "SL", Alpha3 |-> "SLE",
    Numeric |-> 694, DialingCode |-> "+232", Assignment |-> OFFICIALLY_ASSIGNED]],
  \* country-codes.go:3108
  [key |-> "SM", cc |-> [Name |-> "San Marino", Alpha2 |-> "SM", Alpha3 |-> "SMR",
    Numeric |-> 674, DialingCode |-> "+378", Assignment |-> OFFICIALLY_ASSIGNED]],
  \* country-codes.go:3122
  [key |-> "SN", cc |-> [Name |-> "Senegal", Alpha2 |-> "SN", Alpha3 |-> "SEN",
    Numeric |-> 686, DialingCode |-> "+221", Assignment |-> OFFICIALLY_ASSIGNED]],
  \* country-codes.go:3136
  [key |-> "SO", cc |-> [Name |-> "Somalia", Alpha2 |-> "SO", Alpha3 |-> "SOM",
    Numeric |-> 706, DialingCode |-> "+252", Assignment |-> OFFICIALLY_ASSIGNED]],
  \* country-codes.go:3150
  [key |-> "SR", cc |-> [Name |-> "Suriname", Alpha2 |-> "SR", Alpha3 |-> "SUR",
    Numeric |-> 740, DialingCode |-> "+597", Assignment |-> OFFICIALLY_ASSIGNED]],
  \* country-codes.go:3164
  [key |-> "SS", cc |-> [Name |-> "South Sudan", Alpha2 |-> "SS", Alpha3 |-> "SSD",
    Numeric |-> 728, DialingCode |-> "+211", Assignment |-> OFFICIALLY_ASSIGNED]],
  \* country-codes.go:3178
  [key |-> "ST", cc |-> [Name |-> "Sao Tome and Principe", Alpha2 |-> "ST", Alpha3 |-> "STP",
    Numeric |-> 678, DialingCode |-> "+239", Assignment |-> OFFICIALLY_ASSIGNED]],
  \* country-codes.go:3192
  [key |-> "SU", cc |-> [Name |-> "USSR", Alpha2 |-> "SU", Alpha3 |-> "SUN",
    Numeric |-> -1, DialingCode |-> "+7", Assignment |-> EXCEPTIONALLY_RESERVED]],
  \* country-codes.go:3206
  [key |-> "SV", cc |-> [Name |-> "El Salvador", Alpha2 |-> "SV", Alpha3 |-> "SLV",
    Numeric |-> 222, DialingCode |-> "+503", Assignment |-> OFFICIALLY_ASSIGNED]],
  \* country-codes.go:3220
  [key |-> "SX", cc |-> [Name |-> "Sint Maarten (Dutch part)", Alpha2 |-> "SX", Alpha3 |-> "SXM",
    Numeric |-> 534, DialingCode |-> "+1-721", Assignment |-> OFFICIALLY_ASSIGNED]],
  \* country-codes.go:3234
  [key |-> "SY", cc |-> [Name |-> "Syrian Arab Republic", Alpha2 |-> "SY", Alpha3 |-> "SYR",
    Numeric |-> 760, DialingCode |-> "+963", Assignment |-> OFFICIALLY_ASSIGNED]],
  \* country-codes.go:3248
  [key |-> "SZ", cc |-> [Name |-> "Swaziland", Alpha2 |-> "SZ", Alpha3 |-> "SWZ",
    Numeric |-> 748, DialingCode |-> "+268", Assignment |-> OFFICIALLY_ASSIGNED]],
  \* country-codes.go:3262
  [key |-> "TA", cc |-> [Name |-> "Tristan da Cunha", Alpha2 |-> "TA", Alpha3 |-> "TAA",
    Numeric |-> -1, DialingCode |-> "+290-8", Assignment |-> EXCEPTIONALLY_RESERVED]],
  \* country-codes.go:3276
  [key |-> "TC", cc |-> [Name |-> "Turks and Caicos Islands", Alpha2 |-> "TC", Alpha3 |-> "TCA",
    Numeric |-> 796, DialingCode |-> "+1-649", Assignment |-> OFFICIALLY_ASSIGNED]],
  \* country-codes.go:3290
  [key |-> "TD", cc |-> [Name |-> "Chad", Alpha2 |-> "TD", Alpha3 |-> "TCD",
    Numeric |-> 148, DialingCode |-> "+235", Assignment |-> OFFICIALLY_ASSIGNED]],
  \* country-codes.go:3304
  [key |-> "TF", cc |-> [Name |-> "French Southern Territories", Alpha2 |-> "TF", Alpha3 |-> "ATF",
    Numeric |-> 260, DialingCode |-> "", Assignment |-> OFFICIALLY_ASSIGNED]],
  \* country-codes.go:3318
  [key |-> "TG", cc |-> [Name |-> "Togo", Alpha2 |-> "TG", Alpha3 |-> "TGO",
    Numeric |-> 768, DialingCode |-> "228", Assignment |-> OFFICIALLY_ASSIGNED]],
  \* country-codes.go:3332
  [key |-> "TH", cc |-> [Name |-> "Thailand", Alpha2 |-> "TH", Alpha3 |-> "THA",
    Numeric |-> 764, DialingCode |-> "+66", Assignment |-> OFFICIALLY_ASSIGNED]],
  \* country-codes.go:3346
  [key |-> "TJ", cc |-> [Name |-> "Tajikistan", Alpha2 |-> "TJ", Alpha3 |-> "TJK",
    Numeric |-> 762, DialingCode |-> "+992", Assignment |-> OFFICIALLY_ASSIGNED]],
  \* country-codes.go:3360
  [key |-> "TK", cc |-> [Name |-> "Tokelau", Alpha2 |-> "TK", Alpha3 |-> "TKL",
    Numeric |-> 772, DialingCode |-> "+690", Assignment |-> OFFICIALLY_ASSIGNED]],
  \* country-codes.go:3374
  [key |-> "TL", cc |-> [Name |-> "Timor-Leste", Alpha2 |-> "TL", Alpha3 |-> "TLS",
    Numeric |-> 626, DialingCode |-> "+670", Assignment |-> OFFICIALLY_ASSIGNED]],
  \* country-codes.go:3388
  [key |-> "TM", cc |-> [Name |-> "Turkmenistan", Alpha2 |-> "TM", Alpha3 |-> "TKM",
    Numeric |-> 795, DialingCode |-> "+993", Assignment |-> OFFICIALLY_ASSIGNED]],
  \* country-codes.go:3402
  [key |-> "TN", cc |-> [Name |-> "Tunisia", Alpha2 |-> "TN", Alpha3 |-> "TUN",
    Numeric |-> 788, DialingCode |-> "+216", Assignment |-> OFFICIALLY_ASSIGNED]],
  \* country-codes.go:3416
  [key |-> "TO", cc |-> [Name |-> "Tonga", Alpha2 |-> "TO", Alpha3 |-> "TON",
    Numeric |-> 776, DialingCode |-> "+676", Assignment |-> OFFICIALLY_ASSIGNED]],
  \* country-codes.go:3434
  [key |-> "TP", cc |-> [Name |-> "East Timor", Alpha2 |-> "TP", Alpha3 |-> "TPTL",
    Numeric |-> 0, DialingCode |-> "+670", Assignment |-> TRANSITIONALLY_RESERVED]],
  \* country-codes.go:3448
  [key |-> "TR", cc |-> [Name |-> "Turkey", Alpha2 |-> "TR", Alpha3 |-> "TUR",
    Numeric |-> 792, DialingCode |-> "+90", Assignment |-> OFFICIALLY_ASSIGNED]],
  \* country-codes.go:3462
  [key |-> "TT", cc |-> [Name |-> "Trinidad and Tobago", Alpha2 |-> "TT", Alpha3 |-> "TTO",
    Numeric |-> 780, DialingCode |-> "+1-868", Assignment |-> OFFICIALLY_ASSIGNED]],
  \* country-codes.go:3476
  [key |-> "TV", cc |-> [Name |-> "Tuvalu", Alpha2 |-> "TV", Alpha3 |-> "TUV",
    Numeric |-> 798, DialingCode |-> "+688", Assignment |-> OFFICIALLY_ASSIGNED]],
  \* country-codes.go:3490
  [key |-> "TW", cc |-> [Name |-> "Taiwan, Province of China", Alpha2 |-> "TW", Alpha3 |-> "TWN",
    Numeric |-> 158, DialingCode |-> "+886", Assignment |-> OFFICIALLY_ASSIGNED]],
  \* country-codes.go:3504
  [key |-> "TZ", cc |-> [Name |-> "Tanzania, United Republic of", Alpha2 |-> "TZ", Alpha3 |-> "TZA",
    Numeric |-> 834, DialingCode |-> "+255", Assignment |-> OFFICIALLY_ASSIGNED]],
  \* country-codes.go:3518
  [key |-> "UA", cc |-> [Name |-> "Ukraine", Alpha2 |-> "UA", Alpha3 |-> "UKR",
    Numeric |-> 804, DialingCode |-> "+380", Assignment |-> OFFICIALLY_ASSIGNED]],
  \* country-codes.go:3532
  [key |-> "UG", cc |-> [Name |-> "Uganda", Alpha2 |-> "UG", Alpha3 |-> "UGA",
    Numeric |-> 800, DialingCode |-> "+256", Assignment |-> OFFICIALLY_ASSIGNED]],
  \* country-codes.go:3546
  [key |-> "UK", cc |-> [Name |-> "United Kingdom", Alpha2 |-> "UK", Alpha3 |-> "",
    Numeric |-> -1, DialingCode |-> "+44", Assignment |-> EXCEPTIONALLY_RESERVED]],
  \* country-codes.go:3559
  [key |-> "UM", cc |-> [Name |-> "United States Minor Outlying Islands", Alpha2 |-> "UM", Alpha3 |-> "UMI",
    Numeric |-> 581, DialingCode |-> "+1", Assignment |-> OFFICIALLY_ASSIGNED]],
  \* country-codes.go:3573
  [key |-> "US", cc |-> [Name |-> "United States", Alpha2 |-> "US", Alpha3 |-> "USA",
    Numeric |-> 840, DialingCode |-> "+1", Assignment |-> OFFICIALLY_ASSIGNED]],
  \* country-codes.go:3586
  [key |-> "UY", cc |-> [Name |-> "Uruguay", Alpha2 |-> "UY", Alpha3 |-> "URY",
    Numeric |-> 858, DialingCode |-> "+598", Assignment |-> OFFICIALLY_ASSIGNED]],
  \* country-codes.go:3600
  [key |-> "UZ", cc |-> [Name |-> "Uzbekistan", Alpha2 |-> "UZ", Alpha3 |-> "UZB",
    Numeric |-> 860, DialingCode |-> "+998", Assignment |-> OFFICIALLY_ASSIGNED]],
  \* country-codes.go:3614
  [key |-> "VA", cc |-> [Name |-> "Holy See (Vatican City State)", Alpha2 |-> "VA", Alpha3 |-> "VAT",
    Numeric |-> 336, DialingCode |-> "+379", Assignment |-> OFFICIALLY_ASSIGNED]],
  \* country-codes.go:3628
  [key |-> "VC", cc |-> [Name |-> "Saint Vincent and the Grenadines", Alpha2 |-> "VC", Alpha3 |-> "VCT",
    Numeric |-> 670, DialingCode |-> "+1-784", Assignment |-> OFFICIALLY_ASSIGNED]],
  \* country-codes.go:3642
  [key |-> "VE", cc |-> [Name |-> "Venezuela, Bolivarian Republic of", Alpha2 |-> "VE", Alpha3 |-> "VEN",
    Numeric |-> 862, DialingCode |-> "+58", Assignment |-> OFFICIALLY_ASSIGNED]],
  \* country-codes.go:3657
  [key |-> "VG", cc |-> [Name |-> "Virgin Islands, British", Alpha2 |-> "VG", Alpha3 |-> "VGB",
    Numeric |-> 92, DialingCode |-> "+1-284", Assignment |-> OFFICIALLY_ASSIGNED]],
  \* country-codes.go:3671
  [key |-> "VI", cc |-> [Name |-> "Virgin Islands, U.S.", Alpha2 |-> "VI", Alpha3 |-> "VIR",
    Numeric |-> 850, DialingCode |-> "+1-340", Assignment |-> OFFICIALLY_ASSIGNED]],
  \* country-codes.go:3685
  [key |-> "VN", cc |-> [Name |-> "Viet Nam", Alpha2 |-> "VN", Alpha3 |-> "VNM",
    Numeric |-> 704, DialingCode |-> "+84", Assignment |-> OFFICIALLY_ASSIGNED]],
  \* country-codes.go:3699
  [key |-> "VU", cc |-> [Name |-> "Vanuatu", Alpha2 |-> "VU", Alpha3 |-> "VUT",
    Numeric |-> 548, DialingCode |-> "+678", Assignment |-> OFFICIALLY_ASSIGNED]],
  \* country-codes.go:3713
  [key |-> "WF", cc |-> [Name |-> "Wallis and Futuna", Alpha2 |-> "WF", Alpha3 |-> "WLF",
    Numeric |-> 876, DialingCode |-> "+681", Assignment |-> OFFICIALLY_ASSIGNED]],
  \* country-codes.go:3727
  [key |-> "WS", cc |-> [Name |-> "Samoa", Alpha2 |-> "WS", Alpha3 |-> "WSM",
    Numeric |-> 882, DialingCode |-> "+685", Assignment |-> OFFICIALLY_ASSIGNED]],
  \* country-codes.go:3741
  [key |-> "XK", cc |-> [Name |-> "Kosovo, Republic of", Alpha2 |-> "XK", Alpha3 |-> "XXK",
    Numeric |-> -1, DialingCode |-> "+383", Assignment |-> USER_ASSIGNED]],
  \* country-codes.go:3755
  [key |-> "YE", cc |-> [Name |-> "Yemen", Alpha2 |-> "YE", Alpha3 |-> "YEM",
    Numeric |-> 887, DialingCode |-> "+967", Assignment |-> OFFICIALLY_ASSIGNED]],
  \* country-codes.go:3769
  [key |-> "YT", cc |-> [Name |-> "Mayotte", Alpha2 |-> "YT", Alpha3 |-> "MYT",
    Numeric |-> 175, DialingCode |-> "+262", Assignment |-> OFFICIALLY_ASSIGNED]],
  \* country-codes.go:3783
  [key |-> "YU", cc |-> [Name |-> "Yugoslavia", Alpha2 |-> "YU", Alpha3 |-> "YUCS",
    Numeric |-> 890, DialingCode |-> "+38", Assignment |-> TRANSITIONALLY_RESERVED]],
  \* country-codes.go:3797
  [key |-> "ZA", cc |-> [Name |-> "South Africa", Alpha2 |-> "ZA", Alpha3 |-> "ZAF",
    Numeric |-> 710, DialingCode |-> "+27", Assignment |-> OFFICIALLY_ASSIGNED]],
  \* country-codes.go:3811
  [key |-> "ZM", cc |-> [Name |-> "Zambia", Alpha2 |-> "ZM", Alpha3 |-> "ZMB",
    Numeric |-> 894, DialingCode |-> "+260", Assignment |-> OFFICIALLY_ASSIGNED]],
  \* country-codes.go:3829
  [key |-> "ZR", cc |-> [Name |-> "Zaire", Alpha2 |-> "ZR", Alpha3 |-> "ZRCD",
    Numeric |-> 0, DialingCode |-> "+243", Assignment |-> TRANSITIONALLY_RESERVED]],
  \* country-codes.go:3843
  [key |-> "ZW", cc |-> [Name |-> "Zimbabwe", Alpha2 |-> "ZW", Alpha3 |-> "ZWE",
    Numeric |-> 716, DialingCode |-> "+263", Assignment |-> OFFICIALLY_ASSIGNED]]
>>

\* The map the literal denotes (Go rejects a literal with a repeated constant key).
LiteralKeys == {Literal[i].key : i \in 1..Len(Literal)}

\* Faulty variant: the Numeric of the entry under "GB" has a digit typed twice.
LiteralMap_numericTypo ==
  [k \in LiteralKeys |->
     LET cc == Literal[CHOOSE i \in 1..Len(Literal) : Literal[i].key = k].cc
     IN  IF k = "GB" THEN [cc EXCEPT !.Numeric = 8826] ELSE cc]

\* Faulty variant: the entry under "UK" carries the Alpha2 of the entry it was copied from.
LiteralMap_copiedAlpha2 ==
  [k \in LiteralKeys |->
     LET cc == Literal[CHOOSE i \in 1..Len(Literal) : Literal[i].key = k].cc
     IN  IF k = "UK" THEN [cc EXCEPT !.Alpha2 = "GB"] ELSE cc]

LiteralMap ==
  [k \in LiteralKeys |-> Literal[CHOOSE i \in 1..Len(Literal) : Literal[i].key = k].cc]

----------------------------------------------------------------------------
(* Strings *)

\* The code points of every string the model handles: the strings of the table
\* and the accessors' arguments.  A string is written as in Go source, \uXXXX
\* escapes included; r holds the code points the Go literal denotes.
RuneList == <<
  [s |-> "Ascension Island", r |-> <<65,115,99,101,110,115,105,111,110,32,73,115,108,97,110,100>>],
  [s |-> "Andorra", r |-> <<65,110,100,111,114,114,97>>],
  [s |-> "United Arab Emirates", r |-> <<85,110,105,116,101,100,32,65,114,97,98,32,69,109,105,114,97,116,101,115>>],
  [s |-> "Afghanistan", r |-> <<65,102,103,104,97,110,105,115,116,97,110>>],
  [s |-> "Antigua and Barbuda", r |-> <<65,110,116,105,103,117,97,32,97,110,100,32,66,97,114,98,117,100,97>>],
  [s |-> "Anguilla", r |-> <<65,110,103,117,105,108,108,97>>],
  [s |-> "Albania", r |-> <<65,108,98,97,110,105,97>>],
  [s |-> "Armenia", r |-> <<65,114,109,101,110,105,97>>],
  [s |-> "Netherlands Antilles", r |-> <<78,101,116,104,101,114,108,97,110,100,115,32,65,110,116,105,108,108,101,115>>],
  [s |-> "Angola", r |-> <<65,110,103,111,108,97>>],
  [s |-> "Antarctica", r |-> <<65,110,116,97,114,99,116,105,99,97>>],
  [s |-> "Argentina", r |-> <<65,114,103,101,110,116,105,110,97>>],
  [s |-> "American Samoa", r |-> <<65,109,101,114,105,99,97,110,32,83,97,109,111,97>>],
  [s |-> "Austria", r |-> <<65,117,115,116,114,105,97>>],
  [s |-> "Australia", r |-> <<65,117,115,116,114,97,108,105,97>>],
  [s |-> "Aruba", r |-> <<65,114,117,98,97>>],
  [s |-> "\\u212Bland Islands", r |-> <<8491,108,97,110,100,32,73,115,108,97,110,100,115>>],
  [s |-> "Azerbaijan", r |-> <<65,122,101,114,98,97,105,106,97,110>>],
  [s |-> "Bosnia and Herzegovina", r |-> <<66,111,115,110,105,97,32,97,110,100,32,72,101,114,122,101,103,111,118,105,110,97>>],
  [s |-> "Barbados", r |-> <<66,97,114,98,97,100,111,115>>],
  [s |-> "Bangladesh", r |-> <<66,97,110,103,108,97,100,101,115,104>>],
  [s |-> "Belgium", r |-> <<66,101,108,103,105,117,109>>],
  [s |-> "Burkina Faso", r |-> <<66,117,114,107,105,110,97,32,70,97,115,111>>],
  [s |-> "Bulgaria", r |-> <<66,117,108,103,97,114,105,97>>],
  [s |-> "Bahrain", r |-> <<66,97,104,114,97,105,110>>],
  [s |-> "Burundi", r |-> <<66,117,114,117,110,100,105>>],
  [s |-> "Benin", r |-> <<66,101,110,105,110>>],
  [s |-> "Saint Barth\\u00E9lemy", r |-> <<83,97,105,110,116,32,66,97,114,116,104,233,108,101,109,121>>],
  [s |-> "Bermuda", r |-> <<66,101,114,109,117,100,97>>],
  [s |-> "Brunei Darussalam", r |-> <<66,114,117,110,101,105,32,68,97,114,117,115,115,97,108,97,109>>],
  [s |-> "Bolivia, Plurinational State of", r |-> <<66,111,108,105,118,105,97,44,32,80,108,117,114,105,110,97,116,105,111,110,97,108,32,83,116,97,116,101,32,111,102>>],
  [s |-> "Bonaire, Sint Eustatius and Saba", r |-> <<66,111,110,97,105,114,101,44,32,83,105,110,116,32,69,117,115,116,97,116,105,117,115,32,97,110,100,32,83,97,98,97>>],
  [s |-> "Brazil", r |-> <<66,114,97,122,105,108>>],
  [s |-> "Bahamas", r |-> <<66,97,104,97,109,97,115>>],
  [s |-> "Bhutan", r |-> <<66,104,117,116,97,110>>],
  [s |-> "Burma", r |-> <<66,117,114,109,97>>],
  [s |-> "Bouvet Island", r |-> <<66,111,117,118,101,116,32,73,115,108,97,110,100>>],
  [s |-> "Botswana", r |-> <<66,111,116,115,119,97,110,97>>],
  [s |-> "Belarus", r |-> <<66,101,108,97,114,117,115>>],
  [s |-> "Belize", r |-> <<66,101,108,105,122,101>>],
  [s |-> "Canada", r |-> <<67,97,110,97,100,97>>],
  [s |-> "Cocos (Keeling) Islands", r |-> <<67,111,99,111,115,32,40,75,101,101,108,105,110,103,41,32,73,115,108,97,110,100,115>>],
  [s |-> "Congo, the Democratic Republic of the", r |-> <<67,111,110,103,111,44,32,116,104,101,32,68,101,109,111,99,114,97,116,105,99,32,82,101,112,117,98,108,105,99,32,111,102,32,116,104,101>>],
  [s |-> "Central African Republic", r |-> <<67,101,110,116,114,97,108,32,65,102,114,105,99,97,110,32,82,101,112,117,98,108,105,99>>],
  [s |-> "Congo", r |-> <<67,111,110,103,111>>],
  [s |-> "Switzerland", r |-> <<83,119,105,116,122,101,114,108,97,110,100>>],
  [s |-> "C\\u00F4te d'Ivoire", r |-> <<67,244,116,101,32,100,39,73,118,111,105,114,101>>],
  [s |-> "Cook Islands", r |-> <<67,111,111,107,32,73,115,108,97,110,100,115>>],
  [s |-> "Chile", r |-> <<67,104,105,108,101>>],
  [s |-> "Cameroon", r |-> <<67,97,109,101,114,111,111,110>>],
  [s |-> "China", r |-> <<67,104,105,110,97>>],
  [s |-> "Colombia", r |-> <<67,111,108,111,109,98,105,97>>],
  [s |-> "Clipperton Island", r |-> <<67,108,105,112,112,101,114,116,111,110,32,73,115,108,97,110,100>>],
  [s |-> "Costa Rica", r |-> <<67,111,115,116,97,32,82,105,99,97>>],
  [s |-> "Serbia and Montenegro", r |-> <<83,101,114,98,105,97,32,97,110,100,32,77,111,110,116,101,110,101,103,114,111>>],
  [s |-> "Cuba", r |-> <<67,117,98,97>>],
  [s |-> "Cape Verde", r |-> <<67,97,112,101,32,86,101,114,100,101>>],
  [s |-> "Cura\\u00E7ao", r |-> <<67,117,114,97,231,97,111>>],
  [s |-> "Christmas Island", r |-> <<67,104,114,105,115,116,109,97,115,32,73,115,108,97,110,100>>],
  [s |-> "Cyprus", r |-> <<67,121,112,114,117,115>>],
  [s |-> "Czech Republic", r |-> <<67,122,101,99,104,32,82,101,112,117,98,108,105,99>>],
  [s |-> "Germany", r |-> <<71,101,114,109,97,110,121>>],
  [s |-> "Diego Garcia", r |-> <<68,105,101,103,111,32,71,97,114,99,105,97>>],
  [s |-> "Djibouti", r |-> <<68,106,105,98,111,117,116,105>>],
  [s |-> "Denmark", r |-> <<68,101,110,109,97,114,107>>],
  [s |-> "Dominica", r |-> <<68,111,109,105,110,105,99,97>>],
  [s |-> "Dominican Republic", r |-> <<68,111,109,105,110,105,99,97,110,32,82,101,112,117,98,108,105,99>>],
  [s |-> "Algeria", r |-> <<65,108,103,101,114,105,97>>],
  [s |-> "Ceuta, Melilla", r |-> <<67,101,117,116,97,44,32,77,101,108,105,108,108,97>>],
  [s |-> "Ecuador", r |-> <<69,99,117,97,100,111,114>>],
  [s |-> "Estonia", r |-> <<69,115,116,111,110,105,97>>],
  [s |-> "Egypt", r |-> <<69,103,121,112,116>>],
  [s |-> "Western Sahara", r |-> <<87,101,115,116,101,114,110,32,83,97,104,97,114,97>>],
  [s |-> "Eritrea", r |-> <<69,114,105,116,114,101,97>>],
  [s |-> "Spain", r |-> <<83,112,97,105,110>>],
  [s |-> "Ethiopia", r |-> <<69,116,104,105,111,112,105,97>>],
  [s |-> "European Union", r |-> <<69,117,114,111,112,101,97,110,32,85,110,105,111,110>>],
  [s |-> "Finland", r |-> <<70,105,110,108,97,110,100>>],
  [s |-> "Fiji", r |-> <<70,105,106,105>>],
  [s |-> "Falkland Islands (Malvinas)", r |-> <<70,97,108,107,108,97,110,100,32,73,115,108,97,110,100,115,32,40,77,97,108,118,105,110,97,115,41>>],
  [s |-> "Micronesia, Federated States of", r |-> <<77,105,99,114,111,110,101,115,105,97,44,32,70,101,100,101,114,97,116,101,100,32,83,116,97,116,101,115,32,111,102>>],
  [s |-> "Faroe Islands", r |-> <<70,97,114,111,101,32,73,115,108,97,110,100,115>>],
  [s |-> "France", r |-> <<70,114,97,110,99,101>>],
  [s |-> "France, Metropolitan", r |-> <<70,114,97,110,99,101,44,32,77,101,116,114,111,112,111,108,105,116,97,110>>],
  [s |-> "Gabon", r |-> <<71,97,98,111,110>>],
  [s |-> "United Kingdom", r |-> <<85,110,105,116,101,100,32,75,105,110,103,100,111,109>>],
  [s |-> "Grenada", r |-> <<71,114,101,110,97,100,97>>],
  [s |-> "Georgia", r |-> <<71,101,111,114,103,105,97>>],
  [s |-> "French Guiana", r |-> <<70,114,101,110,99,104,32,71,117,105,97,110,97>>],
  [s |-> "Guernsey", r |-> <<71,117,101,114,110,115,101,121>>],
  [s |-> "Ghana", r |-> <<71,104,97,110,97>>],
  [s |-> "Gibraltar", r |-> <<71,105,98,114,97,108,116,97,114>>],
  [s |-> "Greenland", r |-> <<71,114,101,101,110,108,97,110,100>>],
  [s |-> "Gambia", r |-> <<71,97,109,98,105,97>>],
  [s |-> "Guinea", r |-> <<71,117,105,110,101,97>>],
  [s |-> "Guadeloupe", r |-> <<71,117,97,100,101,108,111,117,112,101>>],
  [s |-> "Equatorial Guinea", r |-> <<69,113,117,97,116,111,114,105,97,108,32,71,117,105,110,101,97>>],
  [s |-> "Greece", r |-> <<71,114,101,101,99,101>>],
  [s |-> "South Georgia and the South Sandwich Islands", r |-> <<83,111,117,116,104,32,71,101,111,114,103,105,97,32,97,110,100,32,116,104,101,32,83,111,117,116,104,32,83,97,110,100,119,105,99,104,32,73,115,108,97,110,100,115>>],
  [s |-> "Guatemala", r |-> <<71,117,97,116,101,109,97,108,97>>],
  [s |-> "Guam", r |-> <<71,117,97,109>>],
  [s |-> "Guinea-Bissau", r |-> <<71,117,105,110,101,97,45,66,105,115,115,97,117>>],
  [s |-> "Guyana", r |-> <<71,117,121,97,110,97>>],
  [s |-> "Hong Kong", r |-> <<72,111,110,103,32,75,111,110,103>>],
  [s |-> "Heard Island and McDonald Islands", r |-> <<72,101,97,114,100,32,73,115,108,97,110,100,32,97,110,100,32,77,99,68,111,110,97,108,100,32,73,115,108,97,110,100,115>>],
  [s |-> "Honduras", r |-> <<72,111,110,100,117,114,97,115>>],
  [s |-> "Croatia", r |-> <<67,114,111,97,116,105,97>>],
  [s |-> "Haiti", r |-> <<72,97,105,116,105>>],
  [s |-> "Hungary", r |-> <<72,117,110,103,97,114,121>>],
  [s |-> "Canary Islands", r |-> <<67,97,110,97,114,121,32,73,115,108,97,110,100,115>>],
  [s |-> "Indonesia", r |-> <<73,110,100,111,110,101,115,105,97>>],
  [s |-> "Ireland", r |-> <<73,114,101,108,97,110,100>>],
  [s |-> "Israel", r |-> <<73,115,114,97,101,108>>],
  [s |-> "Isle of Man", r |-> <<73,115,108,101,32,111,102,32,77,97,110>>],
  [s |-> "India", r |-> <<73,110,100,105,97>>],
  [s |-> "British Indian Ocean Territory", r |-> <<66,114,105,116,105,115,104,32,73,110,100,105,97,110,32,79,99,101,97,110,32,84,101,114,114,105,116,111,114,121>>],
  [s |-> "Iraq", r |-> <<73,114,97,113>>],
  [s |-> "Iran, Islamic Republic of", r |-> <<73,114,97,110,44,32,73,115,108,97,109,105,99,32,82,101,112,117,98,108,105,99,32,111,102>>],
  [s |-> "Iceland", r |-> <<73,99,101,108,97,110,100>>],
  [s |-> "Italy", r |-> <<73,116,97,108,121>>],
  [s |-> "Jersey", r |-> <<74,101,114,115,101,121>>],
  [s |-> "Jamaica", r |-> <<74,97,109,97,105,99,97>>],
  [s |-> "Jordan", r |-> <<74,111,114,100,97,110>>],
  [s |-> "Japan", r |-> <<74,97,112,97,110>>],
  [s |-> "Kenya", r |-> <<75,101,110,121,97>>],
  [s |-> "Kyrgyzstan", r |-> <<75,121,114,103,121,122,115,116,97,110>>],
  [s |-> "Cambodia", r |-> <<67,97,109,98,111,100,105,97>>],
  [s |-> "Kiribati", r |-> <<75,105,114,105,98,97,116,105>>],
  [s |-> "Comoros", r |-> <<67,111,109,111,114,111,115>>],
  [s |-> "Saint Kitts and Nevis", r |-> <<83,97,105,110,116,32,75,105,116,116,115,32,97,110,100,32,78,101,118,105,115>>],
  [s |-> "Korea, Democratic People's Republic of", r |-> <<75,111,114,101,97,44,32,68,101,109,111,99,114,97,116,105,99,32,80,101,111,112,108,101,39,115,32,82,101,112,117,98,108,105,99,32,111,102>>],
  [s |-> "Korea, Republic of", r |-> <<75,111,114,101,97,44,32,82,101,112,117,98,108,105,99,32,111,102>>],
  [s |-> "Kuwait", r |-> <<75,117,119,97,105,116>>],
  [s |-> "Cayman Islands", r |-> <<67,97,121,109,97,110,32,73,115,108,97,110,100,115>>],
  [s |-> "Kazakhstan", r |-> <<75,97,122,97,107,104,115,116,97,110>>],
  [s |-> "Lao People's Democratic Republic", r |-> <<76,97,111,32,80,101,111,112,108,101,39,115,32,68,101,109,111,99,114,97,116,105,99,32,82,101,112,117,98,108,105,99>>],
  [s |-> "Lebanon", r |-> <<76,101,98,97,110,111,110>>],
  [s |-> "Saint Lucia", r |-> <<83,97,105,110,116,32,76,117,99,105,97>>],
  [s |-> "Liechtenstein", r |-> <<76,105,101,99,104,116,101,110,115,116,101,105,110>>],
  [s |-> "Sri Lanka", r |-> <<83,114,105,32,76,97,110,107,97>>],
  [s |-> "Liberia", r |-> <<76,105,98,101,114,105,97>>],
  [s |-> "Lesotho", r |-> <<76,101,115,111,116,104,111>>],
  [s |-> "Lithuania", r |-> <<76,105,116,104,117,97,110,105,97>>],
  [s |-> "Luxembourg", r |-> <<76,117,120,101,109,98,111,117,114,103>>],
  [s |-> "Latvia", r |-> <<76,97,116,118,105,97>>],
  [s |-> "Libya", r |-> <<76,105,98,121,97>>],
  [s |-> "Morocco", r |-> <<77,111,114,111,99,99,111>>],
  [s |-> "Monaco", r |-> <<77,111,110,97,99,111>>],
  [s |-> "Moldova, Republic of", r |-> <<77,111,108,100,111,118,97,44,32,82,101,112,117,98,108,105,99,32,111,102>>],
  [s |-> "Montenegro", r |-> <<77,111,110,116,101,110,101,103,114,111>>],
  [s |-> "Saint Martin (French part)", r |-> <<83,97,105,110,116,32,77,97,114,116,105,110,32,40,70,114,101,110,99,104,32,112,97,114,116,41>>],
  [s |-> "Madagascar", r |-> <<77,97,100,97,103,97,115,99,97,114>>],
  [s |-> "Marshall Islands", r |-> <<77,97,114,115,104,97,108,108,32,73,115,108,97,110,100,115>>],
  [s |-> "Macedonia, the former Yugoslav Republic of", r |-> <<77,97,99,101,100,111,110,105,97,44,32,116,104,101,32,102,111,114,109,101,114,32,89,117,103,111,115,108,97,118,32,82,101,112,117,98,108,105,99,32,111,102>>],
  [s |-> "Mali", r |-> <<77,97,108,105>>],
  [s |-> "Myanmar", r |-> <<77,121,97,110,109,97,114>>],
  [s |-> "Mongolia", r |-> <<77,111,110,103,111,108,105,97>>],
  [s |-> "Macao", r |-> <<77,97,99,97,111>>],
  [s |-> "Northern Mariana Islands", r |-> <<78,111,114,116,104,101,114,110,32,77,97,114,105,97,110,97,32,73,115,108,97,110,100,115>>],
  [s |-> "Martinique", r |-> <<77,97,114,116,105,110,105,113,117,101>>],
  [s |-> "Mauritania", r |-> <<77,97,117,114,105,116,97,110,105,97>>],
  [s |-> "Montserrat", r |-> <<77,111,110,116,115,101,114,114,97,116>>],
  [s |-> "Malta", r |-> <<77,97,108,116,97>>],
  [s |-> "Mauritius", r |-> <<77,97,117,114,105,116,105,117,115>>],
  [s |-> "Maldives", r |-> <<77,97,108,100,105,118,101,115>>],
  [s |-> "Malawi", r |-> <<77,97,108,97,119,105>>],
  [s |-> "Mexico", r |-> <<77,101,120,105,99,111>>],
  [s |-> "Malaysia", r |-> <<77,97,108,97,121,115,105,97>>],
  [s |-> "Mozambique", r |-> <<77,111,122,97,109,98,105,113,117,101>>],
  [s |-> "Namibia", r |-> <<78,97,109,105,98,105,97>>],
  [s |-> "New Caledonia", r |-> <<78,101,119,32,67,97,108,101,100,111,110,105,97>>],
  [s |-> "Niger", r |-> <<78,105,103,101,114>>],
  [s |-> "Norfolk Island", r |-> <<78,111,114,102,111,108,107,32,73,115,108,97,110,100>>],
  [s |-> "Nigeria", r |-> <<78,105,103,101,114,105,97>>],
  [s |-> "Nicaragua", r |-> <<78,105,99,97,114,97,103,117,97>>],
  [s |-> "Netherlands", r |-> <<78,101,116,104,101,114,108,97,110,100,115>>],
  [s |-> "Norway", r |-> <<78,111,114,119,97,121>>],
  [s |-> "Nepal", r |-> <<78,101,112,97,108>>],
  [s |-> "Nauru", r |-> <<78,97,117,114,117>>],
  [s |-> "Neutral Zone", r |-> <<78,101,117,116,114,97,108,32,90,111,110,101>>],
  [s |-> "Niue", r |-> <<78,105,117,101>>],
  [s |-> "New Zealand", r |-> <<78,101,119,32,90,101,97,108,97,110,100>>],
  [s |-> "Oman", r |-> <<79,109,97,110>>],
  [s |-> "Panama", r |-> <<80,97,110,97,109,97>>],
  [s |-> "Peru", r |-> <<80,101,114,117>>],
  [s |-> "French Polynesia", r |-> <<70,114,101,110,99,104,32,80,111,108,121,110,101,115,105,97>>],
  [s |-> "Papua New Guinea", r |-> <<80,97,112,117,97,32,78,101,119,32,71,117,105,110,101,97>>],
  [s |-> "Philippines", r |-> <<80,104,105,108,105,112,112,105,110,101,115>>],
  [s |-> "Pakistan", r |-> <<80,97,107,105,115,116,97,110>>],
  [s |-> "Poland", r |-> <<80,111,108,97,110,100>>],
  [s |-> "Saint Pierre and Miquelon", r |-> <<83,97,105,110,116,32,80,105,101,114,114,101,32,97,110,100,32,77,105,113,117,101,108,111,110>>],
  [s |-> "Pitcairn", r |-> <<80,105,116,99,97,105,114,110>>],
  [s |-> "Puerto Rico", r |-> <<80,117,101,114,116,111,32,82,105,99,111>>],
  [s |-> "Palestine, State of", r |-> <<80,97,108,101,115,116,105,110,101,44,32,83,116,97,116,101,32,111,102>>],
  [s |-> "Portugal", r |-> <<80,111,114,116,117,103,97,108>>],
  [s |-> "Palau", r |-> <<80,97,108,97,117>>],
  [s |-> "Paraguay", r |-> <<80,97,114,97,103,117,97,121>>],
  [s |-> "Qatar", r |-> <<81,97,116,97,114>>],
  [s |-> "R\\u00E9union", r |-> <<82,233,117,110,105,111,110>>],
  [s |-> "Romania", r |-> <<82,111,109,97,110,105,97>>],
  [s |-> "Serbia", r |-> <<83,101,114,98,105,97>>],
  [s |-> "Russian Federation", r |-> <<82,117,115,115,105,97,110,32,70,101,100,101,114,97,116,105,111,110>>],
  [s |-> "Rwanda", r |-> <<82,119,97,110,100,97>>],
  [s |-> "Saudi Arabia", r |-> <<83,97,117,100,105,32,65,114,97,98,105,97>>],
  [s |-> "Solomon Islands", r |-> <<83,111,108,111,109,111,110,32,73,115,108,97,110,100,115>>],
  [s |-> "Seychelles", r |-> <<83,101,121,99,104,101,108,108,101,115>>],
  [s |-> "Sudan", r |-> <<83,117,100,97,110>>],
  [s |-> "Sweden", r |-> <<83,119,101,100,101,110>>],
  [s |-> "Singapore", r |-> <<83,105,110,103,97,112,111,114,101>>],
  [s |-> "Saint Helena, Ascension and Tristan da Cunha", r |-> <<83,97,105,110,116,32,72,101,108,101,110,97,44,32,65,115,99,101,110,115,105,111,110,32,97,110,100,32,84,114,105,115,116,97,110,32,100,97,32,67,117,110,104,97>>],
  [s |-> "Slovenia", r |-> <<83,108,111,118,101,110,105,97>>],
  [s |-> "Svalbard and Jan Mayen", r |-> <<83,118,97,108,98,97,114,100,32,97,110,100,32,74,97,110,32,77,97,121,101,110>>],
  [s |-> "Slovakia", r |-> <<83,108,111,118,97,107,105,97>>],
  [s |-> "Sierra Leone", r |-> <<83,105,101,114,114,97,32,76,101,111,110,101>>],
  [s |-> "San Marino", r |-> <<83,97,110,32,77,97,114,105,110,111>>],
  [s |-> "Senegal", r |-> <<83,101,110,101,103,97,108>>],
  [s |-> "Somalia", r |-> <<83,111,109,97,108,105,97>>],
  [s |-> "Suriname", r |-> <<83,117,114,105,110,97,109,101>>],
  [s |-> "South Sudan", r |-> <<83,111,117,116,104,32,83,117,100,97,110>>],
  [s |-> "Sao Tome and Principe", r |-> <<83,97,111,32,84,111,109,101,32,97,110,100,32,80,114,105,110,99,105,112,101>>],
  [s |-> "USSR", r |-> <<85,83,83,82>>],
  [s |-> "El Salvador", r |-> <<69,108,32,83,97,108,118,97,100,111,114>>],
  [s |-> "Sint Maarten (Dutch part)", r |-> <<83,105,110,116,32,77,97,97,114,116,101,110,32,40,68,117,116,99,104,32,112,97,114,116,41>>],
  [s |-> "Syrian Arab Republic", r |-> <<83,121,114,105,97,110,32,65,114,97,98,32,82,101,112,117,98,108,105,99>>],
  [s |-> "Swaziland", r |-> <<83,119,97,122,105,108,97,110,100>>],
  [s |-> "Tristan da Cunha", r |-> <<84,114,105,115,116,97,110,32,100,97,32,67,117,110,104,97>>],
  [s |-> "Turks and Caicos Islands", r |-> <<84,117,114,107,115,32,97,110,100,32,67,97,105,99,111,115,32,73,115,108,97,110,100,115>>],
  [s |-> "Chad", r |-> <<67,104,97,100>>],
  [s |-> "French Southern Territories", r |-> <<70,114,101,110,99,104,32,83,111,117,116,104,101,114,110,32,84,101,114,114,105,116,111,114,105,101,115>>],
  [s |-> "Togo", r |-> <<84,111,103,111>>],
  [s |-> "Thailand", r |-> <<84,104,97,105,108,97,110,100>>],
  [s |-> "Tajikistan", r |-> <<84,97,106,105,107,105,115,116,97,110>>],
  [s |-> "Tokelau", r |-> <<84,111,107,101,108,97,117>>],
  [s |-> "Timor-Leste", r |-> <<84,105,109,111,114,45,76,101,115,116,101>>],
  [s |-> "Turkmenistan", r |-> <<84,117,114,107,109,101,110,105,115,116,97,110>>],
  [s |-> "Tunisia", r |-> <<84,117,110,105,115,105,97>>],
  [s |-> "Tonga", r |-> <<84,111,110,103,97>>],
  [s |-> "East Timor", r |-> <<69,97,115,116,32,84,105,109,111,114>>],
  [s |-> "Turkey", r |-> <<84,117,114,107,101,121>>],
  [s |-> "Trinidad and Tobago", r |-> <<84,114,105,110,105,100,97,100,32,97,110,100,32,84,111,98,97,103,111>>],
  [s |-> "Tuvalu", r |-> <<84,117,118,97,108,117>>],
  [s |-> "Taiwan, Province of China", r |-> <<84,97,105,119,97,110,44,32,80,114,111,118,105,110,99,101,32,111,102,32,67,104,105,110,97>>],
  [s |-> "Tanzania, United Republic of", r |-> <<84,97,110,122,97,110,105,97,44,32,85,110,105,116,101,100,32,82,101,112,117,98,108,105,99,32,111,102>>],
  [s |-> "Ukraine", r |-> <<85,107,114,97,105,110,101>>],
  [s |-> "Uganda", r |-> <<85,103,97,110,100,97>>],
  [s |-> "United States Minor Outlying Islands", r |-> <<85,110,105,116,101,100,32,83,116,97,116,101,115,32,77,105,110,111,114,32,79,117,116,108,121,105,110,103,32,73,115,108,97,110,100,115>>],
  [s |-> "United States", r |-> <<85,110,105,116,101,100,32,83,116,97,116,101,115>>],
  [s |-> "Uruguay", r |-> <<85,114,117,103,117,97,121>>],
  [s |-> "Uzbekistan", r |-> <<85,122,98,101,107,105,115,116,97,110>>],
  [s |-> "Holy See (Vatican City State)", r |-> <<72,111,108,121,32,83,101,101,32,40,86,97,116,105,99,97,110,32,67,105,116,121,32,83,116,97,116,101,41>>],
  [s |-> "Saint Vincent and the Grenadines", r |-> <<83,97,105,110,116,32,86,105,110,99,101,110,116,32,97,110,100,32,116,104,101,32,71,114,101,110,97,100,105,110,101,115>>],
  [s |-> "Venezuela, Bolivarian Republic of", r |-> <<86,101,110,101,122,117,101,108,97,44,32,66,111,108,105,118,97,114,105,97,110,32,82,101,112,117,98,108,105,99,32,111,102>>],
  [s |-> "Virgin Islands, British", r |-> <<86,105,114,103,105,110,32,73,115,108,97,110,100,115,44,32,66,114,105,116,105,115,104>>],
  [s |-> "Virgin Islands, U.S.", r |-> <<86,105,114,103,105,110,32,73,115,108,97,110,100,115,44,32,85,46,83,46>>],
  [s |-> "Viet Nam", r |-> <<86,105,101,116,32,78,97,109>>],
  [s |-> "Vanuatu", r |-> <<86,97,110,117,97,116,117>>],
  [s |-> "Wallis and Futuna", r |-> <<87,97,108,108,105,115,32,97,110,100,32,70,117,116,117,110,97>>],
  [s |-> "Samoa", r |-> <<83,97,109,111,97>>],
  [s |-> "Kosovo, Republic of", r |-> <<75,111,115,111,118,111,44,32,82,101,112,117,98,108,105,99,32,111,102>>],
  [s |-> "Yemen", r |-> <<89,101,109,101,110>>],
  [s |-> "Mayotte", r |-> <<77,97,121,111,116,116,101>>],
  [s |-> "Yugoslavia", r |-> <<89,117,103,111,115,108,97,118,105,97>>],
  [s |-> "South Africa", r |-> <<83,111,117,116,104,32,65,102,114,105,99,97>>],
  [s |-> "Zambia", r |-> <<90,97,109,98,105,97>>],
  [s |-> "Zaire", r |-> <<90,97,105,114,101>>],
  [s |-> "Zimbabwe", r |-> <<90,105,109,98,97,98,119,101>>],
  [s |-> "AC", r |-> <<65,67>>],
  [s |-> "AD", r |-> <<65,68>>],
  [s |-> "AE", r |-> <<65,69>>],
  [s |-> "AF", r |-> <<65,70>>],
  [s |-> "AG", r |-> <<65,71>>],
  [s |-> "AI", r |-> <<65,73>>],
  [s |-> "AL", r |-> <<65,76>>],
  [s |-> "AM", r |-> <<65,77>>],
  [s |-> "AN", r |-> <<65,78>>],
  [s |-> "AO", r |-> <<65,79>>],
  [s |-> "AQ", r |-> <<65,81>>],
  [s |-> "AR", r |-> <<65,82>>],
  [s |-> "AS", r |-> <<65,83>>],
  [s |-> "AT", r |-> <<65,84>>],
  [s |-> "AU", r |-> <<65,85>>],
  [s |-> "AW", r |-> <<65,87>>],
  [s |-> "AX", r |-> <<65,88>>],
  [s |-> "AZ", r |-> <<65,90>>],
  [s |-> "BA", r |-> <<66,65>>],
  [s |-> "BB", r |-> <<66,66>>],
  [s |-> "BD", r |-> <<66,68>>],
  [s |-> "BE", r |-> <<66,69>>],
  [s |-> "BF", r |-> <<66,70>>],
  [s |-> "BG", r |-> <<66,71>>],
  [s |-> "BH", r |-> <<66,72>>],
  [s |-> "BI", r |-> <<66,73>>],
  [s |-> "BJ", r |-> <<66,74>>],
  [s |-> "BL", r |-> <<66,76>>],
  [s |-> "BM", r |-> <<66,77>>],
  [s |-> "BN", r |-> <<66,78>>],
  [s |-> "BO", r |-> <<66,79>>],
  [s |-> "BQ", r |-> <<66,81>>],
  [s |-> "BR", r |-> <<66,82>>],
  [s |-> "BS", r |-> <<66,83>>],
  [s |-> "BT", r |-> <<66,84>>],
  [s |-> "BU", r |-> <<66,85>>],
  [s |-> "BV", r |-> <<66,86>>],
  [s |-> "BW", r |-> <<66,87>>],
  [s |-> "BY", r |-> <<66,89>>],
  [s |-> "BZ", r |-> <<66,90>>],
  [s |-> "CA", r |-> <<67,65>>],
  [s |-> "CC", r |-> <<67,67>>],
  [s |-> "CD", r |-> <<67,68>>],
  [s |-> "CF", r |-> <<67,70>>],
  [s |-> "CG", r |-> <<67,71>>],
  [s |-> "CH", r |-> <<67,72>>],
  [s |-> "CI", r |-> <<67,73>>],
  [s |-> "CK", r |-> <<67,75>>],
  [s |-> "CL", r |-> <<67,76>>],
  [s |-> "CM", r |-> <<67,77>>],
  [s |-> "CN", r |-> <<67,78>>],
  [s |-> "CO", r |-> <<67,79>>],
  [s |-> "CP", r |-> <<67,80>>],
  [s |-> "CR", r |-> <<67,82>>],
  [s |-> "CS", r |-> <<67,83>>],
  [s |-> "CU", r |-> <<67,85>>],
  [s |-> "CV", r |-> <<67,86>>],
  [s |-> "CW", r |-> <<67,87>>],
  [s |-> "CX", r |-> <<67,88>>],
  [s |-> "CY", r |-> <<67,89>>],
  [s |-> "CZ", r |-> <<67,90>>],
  [s |-> "DE", r |-> <<68,69>>],
  [s |-> "DG", r |-> <<68,71>>],
  [s |-> "DJ", r |-> <<68,74>>],
  [s |-> "DK", r |-> <<68,75>>],
  [s |-> "DM", r |-> <<68,77>>],
  [s |-> "DO", r |-> <<68,79>>],
  [s |-> "DZ", r |-> <<68,90>>],
  [s |-> "EA", r |-> <<69,65>>],
  [s |-> "EC", r |-> <<69,67>>],
  [s |-> "EE", r |-> <<69,69>>],
  [s |-> "EG", r |-> <<69,71>>],
  [s |-> "EH", r |-> <<69,72>>],
  [s |-> "ER", r |-> <<69,82>>],
  [s |-> "ES", r |-> <<69,83>>],
  [s |-> "ET", r |-> <<69,84>>],
  [s |-> "EU", r |-> <<69,85>>],
  [s |-> "FI", r |-> <<70,73>>],
  [s |-> "FJ", r |-> <<70,74>>],
  [s |-> "FK", r |-> <<70,75>>],
  [s |-> "FM", r |-> <<70,77>>],
  [s |-> "FO", r |-> <<70,79>>],
  [s |-> "FR", r |-> <<70,82>>],
  [s |-> "FX", r |-> <<70,88>>],
  [s |-> "GA", r |-> <<71,65>>],
  [s |-> "GB", r |-> <<71,66>>],
  [s |-> "GD", r |-> <<71,68>>],
  [s |-> "GE", r |-> <<71,69>>],
  [s |-> "GF", r |-> <<71,70>>],
  [s |-> "GG", r |-> <<71,71>>],
  [s |-> "GH", r |-> <<71,72>>],
  [s |-> "GI", r |-> <<71,73>>],
  [s |-> "GL", r |-> <<71,76>>],
  [s |-> "GM", r |-> <<71,77>>],
  [s |-> "GN", r |-> <<71,78>>],
  [s |-> "GP", r |-> <<71,80>>],
  [s |-> "GQ", r |-> <<71,81>>],
  [s |-> "GR", r |-> <<71,82>>],
  [s |-> "GS", r |-> <<71,83>>],
  [s |-> "GT", r |-> <<71,84>>],
  [s |-> "GU", r |-> <<71,85>>],
  [s |-> "GW", r |-> <<71,87>>],
  [s |-> "GY", r |-> <<71,89>>],
  [s |-> "HK", r |-> <<72,75>>],
  [s |-> "HM", r |-> <<72,77>>],
  [s |-> "HN", r |-> <<72,78>>],
  [s |-> "HR", r |-> <<72,82>>],
  [s |-> "HT", r |-> <<72,84>>],
  [s |-> "HU", r |-> <<72,85>>],
  [s |-> "IC", r |-> <<73,67>>],
  [s |-> "ID", r |-> <<73,68>>],
  [s |-> "IE", r |-> <<73,69>>],
  [s |-> "IL", r |-> <<73,76>>],
  [s |-> "IM", r |-> <<73,77>>],
  [s |-> "IN", r |-> <<73,78>>],
  [s |-> "IO", r |-> <<73,79>>],
  [s |-> "IQ", r |-> <<73,81>>],
  [s |-> "IR", r |-> <<73,82>>],
  [s |-> "IS", r |-> <<73,83>>],
  [s |-> "IT", r |-> <<73,84>>],
  [s |-> "JE", r |-> <<74,69>>],
  [s |-> "JM", r |-> <<74,77>>],
  [s |-> "JO", r |-> <<74,79>>],
  [s |-> "JP", r |-> <<74,80>>],
  [s |-> "KE", r |-> <<75,69>>],
  [s |-> "KG", r |-> <<75,71>>],
  [s |-> "KH", r |-> <<75,72>>],
  [s |-> "KI", r |-> <<75,73>>],
  [s |-> "KM", r |-> <<75,77>>],
  [s |-> "KN", r |-> <<75,78>>],
  [s |-> "KP", r |-> <<75,80>>],
  [s |-> "KR", r |-> <<75,82>>],
  [s |-> "KW", r |-> <<75,87>>],
  [s |-> "KY", r |-> <<75,89>>],
  [s |-> "KZ", r |-> <<75,90>>],
  [s |-> "LA", r |-> <<76,65>>],
  [s |-> "LB", r |-> <<76,66>>],
  [s |-> "LC", r |-> <<76,67>>],
  [s |-> "LI", r |-> <<76,73>>],
  [s |-> "LK", r |-> <<76,75>>],
  [s |-> "LR", r |-> <<76,82>>],
  [s |-> "LS", r |-> <<76,83>>],
  [s |-> "LT", r |-> <<76,84>>],
  [s |-> "LU", r |-> <<76,85>>],
  [s |-> "LV", r |-> <<76,86>>],
  [s |-> "LY", r |-> <<76,89>>],
  [s |-> "MA", r |-> <<77,65>>],
  [s |-> "MC", r |-> <<77,67>>],
  [s |-> "MD", r |-> <<77,68>>],
  [s |-> "ME", r |-> <<77,69>>],
  [s |-> "MF", r |-> <<77,70>>],
  [s |-> "MG", r |-> <<77,71>>],
  [s |-> "MH", r |-> <<77,72>>],
  [s |-> "MK", r |-> <<77,75>>],
  [s |-> "ML", r |-> <<77,76>>],
  [s |-> "MM", r |-> <<77,77>>],
  [s |-> "MN", r |-> <<77,78>>],
  [s |-> "MO", r |-> <<77,79>>],
  [s |-> "MP", r |-> <<77,80>>],
  [s |-> "MQ", r |-> <<77,81>>],
  [s |-> "MR", r |-> <<77,82>>],
  [s |-> "MS", r |-> <<77,83>>],
  [s |-> "MT", r |-> <<77,84>>],
  [s |-> "MU", r |-> <<77,85>>],
  [s |-> "MV", r |-> <<77,86>>],
  [s |-> "MW", r |-> <<77,87>>],
  [s |-> "MX", r |-> <<77,88>>],
  [s |-> "MY", r |-> <<77,89>>],
  [s |-> "MZ", r |-> <<77,90>>],
  [s |-> "NA", r |-> <<78,65>>],
  [s |-> "NC", r |-> <<78,67>>],
  [s |-> "NE", r |-> <<78,69>>],
  [s |-> "NF", r |-> <<78,70>>],
  [s |-> "NG", r |-> <<78,71>>],
  [s |-> "NI", r |-> <<78,73>>],
  [s |-> "NL", r |-> <<78,76>>],
  [s |-> "NO", r |-> <<78,79>>],
  [s |-> "NP", r |-> <<78,80>>],
  [s |-> "NR", r |-> <<78,82>>],
  [s |-> "NT", r |-> <<78,84>>],
  [s |-> "NU", r |-> <<78,85>>],
  [s |-> "NZ", r |-> <<78,90>>],
  [s |-> "OM", r |-> <<79,77>>],
  [s |-> "PA", r |-> <<80,65>>],
  [s |-> "PE", r |-> <<80,69>>],
  [s |-> "PF", r |-> <<80,70>>],
  [s |-> "PG", r |-> <<80,71>>],
  [s |-> "PH", r |-> <<80,72>>],
  [s |-> "PK", r |-> <<80,75>>],
  [s |-> "PL", r |-> <<80,76>>],
  [s |-> "PM", r |-> <<80,77>>],
  [s |-> "PN", r |-> <<80,78>>],
  [s |-> "PR", r |-> <<80,82>>],
  [s |-> "PS", r |-> <<80,83>>],
  [s |-> "PT", r |-> <<80,84>>],
  [s |-> "PW", r |-> <<80,87>>],
  [s |-> "PY", r |-> <<80,89>>],
  [s |-> "QA", r |-> <<81,65>>],
  [s |-> "RE", r |-> <<82,69>>],
  [s |-> "RO", r |-> <<82,79>>],
  [s |-> "RS", r |-> <<82,83>>],
  [s |-> "RU", r |-> <<82,85>>],
  [s |-> "RW", r |-> <<82,87>>],
  [s |-> "SA", r |-> <<83,65>>],
  [s |-> "SB", r |-> <<83,66>>],
  [s |-> "SC", r |-> <<83,67>>],
  [s |-> "SD", r |-> <<83,68>>],
  [s |-> "SE", r |-> <<83,69>>],
  [s |-> "SF", r |-> <<83,70>>],
  [s |-> "SG", r |-> <<83,71>>],
  [s |-> "SH", r |-> <<83,72>>],
  [s |-> "SI", r |-> <<83,73>>],
  [s |-> "SJ", r |-> <<83,74>>],
  [s |-> "SK", r |-> <<83,75>>],
  [s |-> "SL", r |-> <<83,76>>],
  [s |-> "SM", r |-> <<83,77>>],
  [s |-> "SN", r |-> <<83,78>>],
  [s |-> "SO", r |-> <<83,79>>],
  [s |-> "SR", r |-> <<83,82>>],
  [s |-> "SS", r |-> <<83,83>>],
  [s |-> "ST", r |-> <<83,84>>],
  [s |-> "SU", r |-> <<83,85>>],
  [s |-> "SV", r |-> <<83,86>>],
  [s |-> "SX", r |-> <<83,88>>],
  [s |-> "SY", r |-> <<83,89>>],
  [s |-> "SZ", r |-> <<83,90>>],
  [s |-> "TA", r |-> <<84,65>>],
  [s |-> "TC", r |-> <<84,67>>],
  [s |-> "TD", r |-> <<84,68>>],
  [s |-> "TF", r |-> <<84,70>>],
  [s |-> "TG", r |-> <<84,71>>],
  [s |-> "TH", r |-> <<84,72>>],
  [s |-> "TJ", r |-> <<84,74>>],
  [s |-> "TK", r |-> <<84,75>>],
  [s |-> "TL", r |-> <<84,76>>],
  [s |-> "TM", r |-> <<84,77>>],
  [s |-> "TN", r |-> <<84,78>>],
  [s |-> "TO", r |-> <<84,79>>],
  [s |-> "TP", r |-> <<84,80>>],
  [s |-> "TR", r |-> <<84,82>>],
  [s |-> "TT", r |-> <<84,84>>],
  [s |-> "TV", r |-> <<84,86>>],
  [s |-> "TW", r |-> <<84,87>>],
  [s |-> "TZ", r |-> <<84,90>>],
  [s |-> "UA", r |-> <<85,65>>],
  [s |-> "UG", r |-> <<85,71>>],
  [s |-> "UK", r |-> <<85,75>>],
  [s |-> "UM", r |-> <<85,77>>],
  [s |-> "US", r |-> <<85,83>>],
  [s |-> "UY", r |-> <<85,89>>],
  [s |-> "UZ", r |-> <<85,90>>],
  [s |-> "VA", r |-> <<86,65>>],
  [s |-> "VC", r |-> <<86,67>>],
  [s |-> "VE", r |-> <<86,69>>],
  [s |-> "VG", r |-> <<86,71>>],
  [s |-> "VI", r |-> <<86,73>>],
  [s |-> "VN", r |-> <<86,78>>],
  [s |-> "VU", r |-> <<86,85>>],
  [s |-> "WF", r |-> <<87,70>>],
  [s |-> "WS", r |-> <<87,83>>],
  [s |-> "XK", r |-> <<88,75>>],
  [s |-> "YE", r |-> <<89,69>>],
  [s |-> "YT", r |-> <<89,84>>],
  [s |-> "YU", r |-> <<89,85>>],
  [s |-> "ZA", r |-> <<90,65>>],
  [s |-> "ZM", r |-> <<90,77>>],
  [s |-> "ZR", r |-> <<90,82>>],
  [s |-> "ZW", r |-> <<90,87>>],
  [s |-> "ASC", r |-> <<65,83,67>>],
  [s |-> "AND", r |-> <<65,78,68>>],
  [s |-> "ARE", r |-> <<65,82,69>>],
  [s |-> "AFG", r |-> <<65,70,71>>],
  [s |-> "ATG", r |-> <<65,84,71>>],
  [s |-> "AIA", r |-> <<65,73,65>>],
  [s |-> "ALB", r |-> <<65,76,66>>],
  [s |-> "ARM", r |-> <<65,82,77>>],
  [s |-> "ANHH", r |-> <<65,78,72,72>>],
  [s |-> "AGO", r |-> <<65,71,79>>],
  [s |-> "ATA", r |-> <<65,84,65>>],
  [s |-> "ARG", r |-> <<65,82,71>>],
  [s |-> "ASM", r |-> <<65,83,77>>],
  [s |-> "AUT", r |-> <<65,85,84>>],
  [s |-> "AUS", r |-> <<65,85,83>>],
  [s |-> "ABW", r |-> <<65,66,87>>],
  [s |-> "ALA", r |-> <<65,76,65>>],
  [s |-> "AZE", r |-> <<65,90,69>>],
  [s |-> "BIH", r |-> <<66,73,72>>],
  [s |-> "BRB", r |-> <<66,82,66>>],
  [s |-> "BGD", r |-> <<66,71,68>>],
  [s |-> "BEL", r |-> <<66,69,76>>],
  [s |-> "BFA", r |-> <<66,70,65>>],
  [s |-> "BGR", r |-> <<66,71,82>>],
  [s |-> "BHR", r |-> <<66,72,82>>],
  [s |-> "BDI", r |-> <<66,68,73>>],
  [s |-> "BEN", r |-> <<66,69,78>>],
  [s |-> "BLM", r |-> <<66,76,77>>],
  [s |-> "BMU", r |-> <<66,77,85>>],
  [s |-> "BRN", r |-> <<66,82,78>>],
  [s |-> "BOL", r |-> <<66,79,76>>],
  [s |-> "BES", r |-> <<66,69,83>>],
  [s |-> "BRA", r |-> <<66,82,65>>],
  [s |-> "BHS", r |-> <<66,72,83>>],
  [s |-> "BTN", r |-> <<66,84,78>>],
  [s |-> "BUMM", r |-> <<66,85,77,77>>],
  [s |-> "BVT", r |-> <<66,86,84>>],
  [s |-> "BWA", r |-> <<66,87,65>>],
  [s |-> "BLR", r |-> <<66,76,82>>],
  [s |-> "BLZ", r |-> <<66,76,90>>],
  [s |-> "CAN", r |-> <<67,65,78>>],
  [s |-> "CCK", r |-> <<67,67,75>>],
  [s |-> "COD", r |-> <<67,79,68>>],
  [s |-> "CAF", r |-> <<67,65,70>>],
  [s |-> "COG", r |-> <<67,79,71>>],
  [s |-> "CHE", r |-> <<67,72,69>>],
  [s |-> "CIV", r |-> <<67,73,86>>],
  [s |-> "COK", r |-> <<67,79,75>>],
  [s |-> "CHL", r |-> <<67,72,76>>],
  [s |-> "CMR", r |-> <<67,77,82>>],
  [s |-> "CHN", r |-> <<67,72,78>>],
  [s |-> "COL", r |-> <<67,79,76>>],
  [s |-> "CPT", r |-> <<67,80,84>>],
  [s |-> "CRI", r |-> <<67,82,73>>],
  [s |-> "CSXX", r |-> <<67,83,88,88>>],
  [s |-> "CUB", r |-> <<67,85,66>>],
  [s |-> "CPV", r |-> <<67,80,86>>],
  [s |-> "CUW", r |-> <<67,85,87>>],
  [s |-> "CXR", r |-> <<67,88,82>>],
  [s |-> "CYP", r |-> <<67,89,80>>],
  [s |-> "CZE", r |-> <<67,90,69>>],
  [s |-> "DEU", r |-> <<68,69,85>>],
  [s |-> "DGA", r |-> <<68,71,65>>],
  [s |-> "DJI", r |-> <<68,74,73>>],
  [s |-> "DNK", r |-> <<68,78,75>>],
  [s |-> "DMA", r |-> <<68,77,65>>],
  [s |-> "DOM", r |-> <<68,79,77>>],
  [s |-> "DZA", r |-> <<68,90,65>>],
  [s |-> "", r |-> <<>>],
  [s |-> "ECU", r |-> <<69,67,85>>],
  [s |-> "EST", r |-> <<69,83,84>>],
  [s |-> "EGY", r |-> <<69,71,89>>],
  [s |-> "ESH", r |-> <<69,83,72>>],
  [s |-> "ERI", r |-> <<69,82,73>>],
  [s |-> "ESP", r |-> <<69,83,80>>],
  [s |-> "ETH", r |-> <<69,84,72>>],
  [s |-> "FIN", r |-> <<70,73,78>>],
  [s |-> "FJI", r |-> <<70,74,73>>],
  [s |-> "FLK", r |-> <<70,76,75>>],
  [s |-> "FSM", r |-> <<70,83,77>>],
  [s |-> "FRO", r |-> <<70,82,79>>],
  [s |-> "FRA", r |-> <<70,82,65>>],
  [s |-> "FXX", r |-> <<70,88,88>>],
  [s |-> "GAB", r |-> <<71,65,66>>],
  [s |-> "GBR", r |-> <<71,66,82>>],
  [s |-> "GRD", r |-> <<71,82,68>>],
  [s |-> "GEO", r |-> <<71,69,79>>],
  [s |-> "GUF", r |-> <<71,85,70>>],
  [s |-> "GGY", r |-> <<71,71,89>>],
  [s |-> "GHA", r |-> <<71,72,65>>],
  [s |-> "GIB", r |-> <<71,73,66>>],
  [s |-> "GRL", r |-> <<71,82,76>>],
  [s |-> "GMB", r |-> <<71,77,66>>],
  [s |-> "GIN", r |-> <<71,73,78>>],
  [s |-> "GLP", r |-> <<71,76,80>>],
  [s |-> "GNQ", r |-> <<71,78,81>>],
  [s |-> "GRC", r |-> <<71,82,67>>],
  [s |-> "SGS", r |-> <<83,71,83>>],
  [s |-> "GTM", r |-> <<71,84,77>>],
  [s |-> "GUM", r |-> <<71,85,77>>],
  [s |-> "GNB", r |-> <<71,78,66>>],
  [s |-> "GUY", r |-> <<71,85,89>>],
  [s |-> "HKG", r |-> <<72,75,71>>],
  [s |-> "HMD", r |-> <<72,77,68>>],
  [s |-> "HND", r |-> <<72,78,68>>],
  [s |-> "HRV", r |-> <<72,82,86>>],
  [s |-> "HTI", r |-> <<72,84,73>>],
  [s |-> "HUN", r |-> <<72,85,78>>],
  [s |-> "IDN", r |-> <<73,68,78>>],
  [s |-> "IRL", r |-> <<73,82,76>>],
  [s |-> "ISR", r |-> <<73,83,82>>],
  [s |-> "IMN", r |-> <<73,77,78>>],
  [s |-> "IND", r |-> <<73,78,68>>],
  [s |-> "IOT", r |-> <<73,79,84>>],
  [s |-> "IRQ", r |-> <<73,82,81>>],
  [s |-> "IRN", r |-> <<73,82,78>>],
  [s |-> "ISL", r |-> <<73,83,76>>],
  [s |-> "ITA", r |-> <<73,84,65>>],
  [s |-> "JEY", r |-> <<74,69,89>>],
  [s |-> "JAM", r |-> <<74,65,77>>],
  [s |-> "JOR", r |-> <<74,79,82>>],
  [s |-> "JPN", r |-> <<74,80,78>>],
  [s |-> "KEN", r |-> <<75,69,78>>],
  [s |-> "KGZ", r |-> <<75,71,90>>],
  [s |-> "KHM", r |-> <<75,72,77>>],
  [s |-> "KIR", r |-> <<75,73,82>>],
  [s |-> "COM", r |-> <<67,79,77>>],
  [s |-> "KNA", r |-> <<75,78,65>>],
  [s |-> "PRK", r |-> <<80,82,75>>],
  [s |-> "KOR", r |-> <<75,79,82>>],
  [s |-> "KWT", r |-> <<75,87,84>>],
  [s |-> "CYM", r |-> <<67,89,77>>],
  [s |-> "KAZ", r |-> <<75,65,90>>],
  [s |-> "LAO", r |-> <<76,65,79>>],
  [s |-> "LBN", r |-> <<76,66,78>>],
  [s |-> "LCA", r |-> <<76,67,65>>],
  [s |-> "LIE", r |-> <<76,73,69>>],
  [s |-> "LKA", r |-> <<76,75,65>>],
  [s |-> "LBR", r |-> <<76,66,82>>],
  [s |-> "LSO", r |-> <<76,83,79>>],
  [s |-> "LTU", r |-> <<76,84,85>>],
  [s |-> "LUX", r |-> <<76,85,88>>],
  [s |-> "LVA", r |-> <<76,86,65>>],
  [s |-> "LBY", r |-> <<76,66,89>>],
  [s |-> "MAR", r |-> <<77,65,82>>],
  [s |-> "MCO", r |-> <<77,67,79>>],
  [s |-> "MDA", r |-> <<77,68,65>>],
  [s |-> "MNE", r |-> <<77,78,69>>],
  [s |-> "MAF", r |-> <<77,65,70>>],
  [s |-> "MDG", r |-> <<77,68,71>>],
  [s |-> "MHL", r |-> <<77,72,76>>],
  [s |-> "MKD", r |-> <<77,75,68>>],
  [s |-> "MLI", r |-> <<77,76,73>>],
  [s |-> "MMR", r |-> <<77,77,82>>],
  [s |-> "MNG", r |-> <<77,78,71>>],
  [s |-> "MAC", r |-> <<77,65,67>>],
  [s |-> "MNP", r |-> <<77,78,80>>],
  [s |-> "MTQ", r |-> <<77,84,81>>],
  [s |-> "MRT", r |-> <<77,82,84>>],
  [s |-> "MSR", r |-> <<77,83,82>>],
  [s |-> "MLT", r |-> <<77,76,84>>],
  [s |-> "MUS", r |-> <<77,85,83>>],
  [s |-> "MDV", r |-> <<77,68,86>>],
  [s |-> "MWI", r |-> <<77,87,73>>],
  [s |-> "MEX", r |-> <<77,69,88>>],
  [s |-> "MYS", r |-> <<77,89,83>>],
  [s |-> "MOZ", r |-> <<77,79,90>>],
  [s |-> "NAM", r |-> <<78,65,77>>],
  [s |-> "NCL", r |-> <<78,67,76>>],
  [s |-> "NER", r |-> <<78,69,82>>],
  [s |-> "NFK", r |-> <<78,70,75>>],
  [s |-> "NGA", r |-> <<78,71,65>>],
  [s |-> "NIC", r |-> <<78,73,67>>],
  [s |-> "NLD", r |-> <<78,76,68>>],
  [s |-> "NOR", r |-> <<78,79,82>>],
  [s |-> "NPL", r |-> <<78,80,76>>],
  [s |-> "NRU", r |-> <<78,82,85>>],
  [s |-> "NTHH", r |-> <<78,84,72,72>>],
  [s |-> "NIU", r |-> <<78,73,85>>],
  [s |-> "NZL", r |-> <<78,90,76>>],
  [s |-> "OMN", r |-> <<79,77,78>>],
  [s |-> "PAN", r |-> <<80,65,78>>],
  [s |-> "PER", r |-> <<80,69,82>>],
  [s |-> "PYF", r |-> <<80,89,70>>],
  [s |-> "PNG", r |-> <<80,78,71>>],
  [s |-> "PHL", r |-> <<80,72,76>>],
  [s |-> "PAK", r |-> <<80,65,75>>],
  [s |-> "POL", r |-> <<80,79,76>>],
  [s |-> "SPM", r |-> <<83,80,77>>],
  [s |-> "PCN", r |-> <<80,67,78>>],
  [s |-> "PRI", r |-> <<80,82,73>>],
  [s |-> "PSE", r |-> <<80,83,69>>],
  [s |-> "PRT", r |-> <<80,82,84>>],
  [s |-> "PLW", r |-> <<80,76,87>>],
  [s |-> "PRY", r |-> <<80,82,89>>],
  [s |-> "QAT", r |-> <<81,65,84>>],
  [s |-> "REU", r |-> <<82,69,85>>],
  [s |-> "ROU", r |-> <<82,79,85>>],
  [s |-> "SRB", r |-> <<83,82,66>>],
  [s |-> "RUS", r |-> <<82,85,83>>],
  [s |-> "RWA", r |-> <<82,87,65>>],
  [s |-> "SAU", r |-> <<83,65,85>>],
  [s |-> "SLB", r |-> <<83,76,66>>],
  [s |-> "SYC", r |-> <<83,89,67>>],
  [s |-> "SDN", r |-> <<83,68,78>>],
  [s |-> "SWE", r |-> <<83,87,69>>],
  [s |-> "SGP", r |-> <<83,71,80>>],
  [s |-> "SHN", r |-> <<83,72,78>>],
  [s |-> "SVN", r |-> <<83,86,78>>],
  [s |-> "SJM", r |-> <<83,74,77>>],
  [s |-> "SVK", r |-> <<83,86,75>>],
  [s |-> "SLE", r |-> <<83,76,69>>],
  [s |-> "SMR", r |-> <<83,77,82>>],
  [s |-> "SEN", r |-> <<83,69,78>>],
  [s |-> "SOM", r |-> <<83,79,77>>],
  [s |-> "SUR", r |-> <<83,85,82>>],
  [s |-> "SSD", r |-> <<83,83,68>>],
  [s |-> "STP", r |-> <<83,84,80>>],
  [s |-> "SUN", r |-> <<83,85,78>>],
  [s |-> "SLV", r |-> <<83,76,86>>],
  [s |-> "SXM", r |-> <<83,88,77>>],
  [s |-> "SYR", r |-> <<83,89,82>>],
  [s |-> "SWZ", r |-> <<83,87,90>>],
  [s |-> "TAA", r |-> <<84,65,65>>],
  [s |-> "TCA", r |-> <<84,67,65>>],
  [s |-> "TCD", r |-> <<84,67,68>>],
  [s |-> "ATF", r |-> <<65,84,70>>],
  [s |-> "TGO", r |-> <<84,71,79>>],
  [s |-> "THA", r |-> <<84,72,65>>],
  [s |-> "TJK", r |-> <<84,74,75>>],
  [s |-> "TKL", r |-> <<84,75,76>>],
  [s |-> "TLS", r |-> <<84,76,83>>],
  [s |-> "TKM", r |-> <<84,75,77>>],
  [s |-> "TUN", r |-> <<84,85,78>>],
  [s |-> "TON", r |-> <<84,79,78>>],
  [s |-> "TPTL", r |-> <<84,80,84,76>>],
  [s |-> "TUR", r |-> <<84,85,82>>],
  [s |-> "TTO", r |-> <<84,84,79>>],
  [s |-> "TUV", r |-> <<84,85,86>>],
  [s |-> "TWN", r |-> <<84,87,78>>],
  [s |-> "TZA", r |-> <<84,90,65>>],
  [s |-> "UKR", r |-> <<85,75,82>>],
  [s |-> "UGA", r |-> <<85,71,65>>],
  [s |-> "UMI", r |-> <<85,77,73>>],
  [s |-> "USA", r |-> <<85,83,65>>],
  [s |-> "URY", r |-> <<85,82,89>>],
  [s |-> "UZB", r |-> <<85,90,66>>],
  [s |-> "VAT", r |-> <<86,65,84>>],
  [s |-> "VCT", r |-> <<86,67,84>>],
  [s |-> "VEN", r |-> <<86,69,78>>],
  [s |-> "VGB", r |-> <<86,71,66>>],
  [s |-> "VIR", r |-> <<86,73,82>>],
  [s |-> "VNM", r |-> <<86,78,77>>],
  [s |-> "VUT", r |-> <<86,85,84>>],
  [s |-> "WLF", r |-> <<87,76,70>>],
  [s |-> "WSM", r |-> <<87,83,77>>],
  [s |-> "XXK", r |-> <<88,88,75>>],
  [s |-> "YEM", r |-> <<89,69,77>>],
  [s |-> "MYT", r |-> <<77,89,84>>],
  [s |-> "YUCS", r |-> <<89,85,67,83>>],
  [s |-> "ZAF", r |-> <<90,65,70>>],
  [s |-> "ZMB", r |-> <<90,77,66>>],
  [s |-> "ZRCD", r |-> <<90,82,67,68>>],
  [s |-> "ZWE", r |-> <<90,87,69>>],
  [s |-> "ZZ", r |-> <<90,90>>],
  [s |-> "um", r |-> <<117,109>>],
  [s |-> " UM", r |-> <<32,85,77>>],
  [s |-> "UM ", r |-> <<85,77,32>>],
  [s |-> "Um", r |-> <<85,109>>],
  [s |-> "ZZZ", r |-> <<90,90,90>>],
  [s |-> "fin", r |-> <<102,105,110>>],
  [s |-> "FIN ", r |-> <<70,73,78,32>>],
  [s |-> "finland", r |-> <<102,105,110,108,97,110,100>>],
  [s |-> "FINLAND", r |-> <<70,73,78,76,65,78,68>>],
  [s |-> "Finland ", r |-> <<70,105,110,108,97,110,100,32>>],
  [s |-> "United States Minor", r |-> <<85,110,105,116,101,100,32,83,116,97,116,101,115,32,77,105,110,111,114>>],
  [s |-> "Atlantis", r |-> <<65,116,108,97,110,116,105,115>>],
  [s |-> "united states minor", r |-> <<117,110,105,116,101,100,32,115,116,97,116,101,115,32,109,105,110,111,114>>],
  [s |-> "UNITED STATES MINOR", r |-> <<85,78,73,84,69,68,32,83,84,65,84,69,83,32,77,73,78,79,82>>],
  [s |-> "zz-nonexistent-prefix", r |-> <<122,122,45,110,111,110,101,120,105,115,116,101,110,116,45,112,114,101,102,105,120>>],
  [s |-> "united k", r |-> <<117,110,105,116,101,100,32,107>>],
  [s |-> "U", r |-> <<85>>],
  [s |-> "u", r |-> <<117>>],
  [s |-> "Z", r |-> <<90>>],
  [s |-> "z", r |-> <<122>>],
  [s |-> "\\u00C5", r |-> <<197>>],
  [s |-> "\\u00E5", r |-> <<229>>],
  [s |-> "\\u212Bland", r |-> <<8491,108,97,110,100>>],
  [s |-> "\\u00C5LAND", r |-> <<197,76,65,78,68>>],
  [s |-> "Saint ", r |-> <<83,97,105,110,116,32>>],
  [s |-> "saint", r |-> <<115,97,105,110,116>>],
  [s |-> "zimbabwes", r |-> <<122,105,109,98,97,98,119,101,115>>],
  [s |-> "x", r |-> <<120>>],
  [s |-> "Q", r |-> <<81>>],
  [s |-> " FIN", r |-> <<32,70,73,78>>],
  [s |-> "Fin", r |-> <<70,105,110>>],
  [s |-> " Finland", r |-> <<32,70,105,110,108,97,110,100>>]
>>

RuneTable ==
  [s \in {RuneList[i].s : i \in 1..Len(RuneList)} |->
     RuneList[CHOOSE i \in 1..Len(RuneList) : RuneList[i].s = s].r]

Runes(s) == RuneTable[s]

\* unicode.ToLower on one code point, for the characters the table and the inputs
\* use: A-Z, the accented capitals of Latin-1 (U+00C0..U+00DE without U+00D7), and
\* the Angstrom sign U+212B of "\u212Bland Islands", whose lower case is U+00E5.
ToLowerRune(c) ==
  IF c >= 65 /\ c <= 90 THEN c + 32
  ELSE IF c >= 192 /\ c <= 222 /\ c # 215 THEN c + 32
  ELSE IF c = 8491 THEN 229
  ELSE c

RECURSIVE MapRunes(_)
\* strings.ToLower maps unicode.ToLower over the code points
MapRunes(r) ==
  IF r = <<>> THEN <<>> ELSE <<ToLowerRune(Head(r))>> \o MapRunes(Tail(r))

\* patricia.Prefix(strings.ToLower(s)): the lowercased string, as the trie takes it
ToLower(s) == MapRunes(Runes(s))

\* p is a prefix of s
HasPrefix(s, p) == Len(p) <= Len(s) /\ SubSeq(s, 1, Len(p)) = p

----------------------------------------------------------------------------
(* Go maps *)

\* make(map[K]CountryCode)
MakeMap == <<>>

\* m[k] = v
MapSet(m, k, v) == (k :> v) @@ m

\* m[k] as an expression: the zero value when k is absent
MapGet(m, k) == IF k \in DOMAIN m THEN m[k] ELSE ZeroCountryCode

----------------------------------------------------------------------------
(* The patricia trie, as this package uses it.  items maps each stored key *)
(* to its item; walk lists the stored keys in the order a walk visits them.*)
(* The package fixes no order among the keys; the model walks them in the  *)
(* order they were stored.                                                 *)

\* patricia.NewTrie()
NewTrie == [items |-> <<>>, walk |-> <<>>]

\* Faulty variant: Insert under a key that holds an item adds a second entry.
TrieInsert_addsAgain(t, key, item) ==
  [items |-> (key :> item) @@ t.items, walk |-> Append(t.walk, key)]

\* Faulty variant: Insert replaces the item already stored under the key.
TrieInsert_replaces(t, key, item) ==
  IF key \in DOMAIN t.items THEN [t EXCEPT !.items = (key :> item) @@ t.items]
  ELSE [items |-> (key :> item) @@ t.items, walk |-> Append(t.walk, key)]

\* trie.Insert(key, item): stores the item unless the key already holds one
TrieInsert(t, key, item) ==
  IF key \in DOMAIN t.items THEN t
  ELSE [items |-> (key :> item) @@ t.items, walk |-> Append(t.walk, key)]

\* Faulty variant: only the item stored under the prefix itself is visited.
VisitSubtree_exactOnly(t, prefix) ==
  IF prefix \in DOMAIN t.items THEN <<t.items[prefix]>> ELSE <<>>

\* Faulty variant: the descent stops after the first character of the prefix.
VisitSubtree_firstRune(t, prefix) ==
  LET p == IF prefix = <<>> THEN <<>> ELSE <<Head(prefix)>>
      under == SelectSeq(t.walk, LAMBDA k : HasPrefix(k, p))
  IN  [i \in 1..Len(under) |-> t.items[under[i]]]

\* trie.VisitSubtree(prefix, visitor): the items the visitor is called with, in order:
\* those stored under a key that starts with the prefix
VisitSubtree(t, prefix) ==
  LET under == SelectSeq(t.walk, LAMBDA k : HasPrefix(k, prefix))
  IN  [i \in 1..Len(under) |-> t.items[under[i]]]

----------------------------------------------------------------------------
(* Go slices: nil or not, and the elements *)

\* Faulty variant: matches is declared and never made, so it is nil until appended to.
MakeSlice_nil == [isNil |-> TRUE, elems |-> <<>>]

\* make([]CountryCode, 0)
MakeSlice == [isNil |-> FALSE, elems |-> <<>>]

\* append(s, x) for each x of xs in turn: nil stays nil only when nothing is appended
AppendEach(s, xs) == [isNil |-> s.isNil /\ Len(xs) = 0, elems |-> s.elems \o xs]

----------------------------------------------------------------------------
VARIABLES
  by_alpha2,   \* map[string]CountryCode
  by_name,     \* map[string]CountryCode
  by_alpha3,   \* map[string]CountryCode
  by_numeric,  \* map[int]CountryCode
  name_trie,   \* *patricia.Trie
  pc,          \* "start" before init(), "loop" inside its range loop, "ready" after it
  order,       \* the keys of by_alpha2 in the order the range loop yields them
  done,        \* how many keys of order the range loop has processed
  call,        \* the last accessor call: its name, argument and return value
  goroutines   \* for each calling goroutine, the accessor call it is in

registry == <<by_alpha2, by_name, by_alpha3, by_numeric, name_trie>>
vars ==
  <<by_alpha2, by_name, by_alpha3, by_numeric, name_trie, pc, order, done, call, goroutines>>

NoCall == [op |-> "none", arg |-> "", ret |-> <<>>]

\* Package variables before init(): nil maps, which read as empty, and a nil trie
\* pointer, which nothing dereferences before init() sets it (it starts empty here).
\* How many goroutines call the accessors at the same time.
NumCallers == 2

Goroutines == 1..NumCallers

\* A goroutine that is in no accessor.  Inside FindByName, matches is the named
\* result the visit closure appends to and next the position of the subtree walk.
NoRun ==
  [at |-> "idle", op |-> "none", arg |-> "", matches |-> <<>>, next |-> 0, ret |-> <<>>]

Init ==
  /\ by_alpha2 = MakeMap
  /\ by_name = MakeMap
  /\ by_alpha3 = MakeMap
  /\ by_numeric = MakeMap
  /\ name_trie = NewTrie
  /\ pc = "start"
  /\ order = <<>>
  /\ done = 0
  /\ call = NoCall
  /\ goroutines = [g \in Goroutines |-> NoRun]

----------------------------------------------------------------------------
(* init() *)

\* Faulty variant: the alpha3 index keeps the entry it already has under an Alpha3.
LoopBody_alpha3KeepFirst(st, cc) ==
  [by_alpha3  |-> IF cc.Alpha3 # "" /\ cc.Alpha3 \notin DOMAIN st.by_alpha3
                  THEN MapSet(st.by_alpha3, cc.Alpha3, cc)
                  ELSE st.by_alpha3,
   by_name    |-> MapSet(st.by_name, cc.Name, cc),
   by_numeric |-> MapSet(st.by_numeric, cc.Numeric, cc),
   name_trie  |-> TrieInsert(st.name_trie, ToLower(cc.Name), cc)]

\* Faulty variant: the record is inserted in the trie under its Name as written.
LoopBody_noLowerInsert(st, cc) ==
  [by_alpha3  |-> IF cc.Alpha3 # "" THEN MapSet(st.by_alpha3, cc.Alpha3, cc)
                  ELSE st.by_alpha3,
   by_name    |-> MapSet(st.by_name, cc.Name, cc),
   by_numeric |-> MapSet(st.by_numeric, cc.Numeric, cc),
   name_trie  |-> TrieInsert(st.name_trie, Runes(cc.Name), cc)]

\* Faulty variant: the loop body without the test for an empty Alpha3.
LoopBody_noAlpha3Guard(st, cc) ==
  [by_alpha3  |-> MapSet(st.by_alpha3, cc.Alpha3, cc),
   by_name    |-> MapSet(st.by_name, cc.Name, cc),
   by_numeric |-> MapSet(st.by_numeric, cc.Numeric, cc),
   name_trie  |-> TrieInsert(st.name_trie, ToLower(cc.Name), cc)]

\* Faulty variant: records without a numeric code are left out of the numeric index.
LoopBody_skipsSentinel(st, cc) ==
  [by_alpha3  |-> IF cc.Alpha3 # "" THEN MapSet(st.by_alpha3, cc.Alpha3, cc)
                  ELSE st.by_alpha3,
   by_name    |-> MapSet(st.by_name, cc.Name, cc),
   by_numeric |-> IF cc.Numeric >= 0 THEN MapSet(st.by_numeric, cc.Numeric, cc)
                  ELSE st.by_numeric,
   name_trie  |-> TrieInsert(st.name_trie, ToLower(cc.Name), cc)]

\* Faulty variant: the name index keeps the entry it already has under a Name.
LoopBody_keepFirst(st, cc) ==
  [by_alpha3  |-> IF cc.Alpha3 # "" THEN MapSet(st.by_alpha3, cc.Alpha3, cc)
                  ELSE st.by_alpha3,
   by_name    |-> IF cc.Name \in DOMAIN st.by_name THEN st.by_name
                  ELSE MapSet(st.by_name, cc.Name, cc),
   by_numeric |-> MapSet(st.by_numeric, cc.Numeric, cc),
   name_trie  |-> TrieInsert(st.name_trie, ToLower(cc.Name), cc)]

\* Faulty variant: the loop body without its by_name assignment.
LoopBody_noByName(st, cc) ==
  [by_alpha3  |-> IF cc.Alpha3 # "" THEN MapSet(st.by_alpha3, cc.Alpha3, cc)
                  ELSE st.by_alpha3,
   by_name    |-> st.by_name,
   by_numeric |-> MapSet(st.by_numeric, cc.Numeric, cc),
   name_trie  |-> TrieInsert(st.name_trie, ToLower(cc.Name), cc)]

\* One iteration of "for _, cc := range by_alpha2" on the derived indexes.
LoopBody(st, cc) ==
  [by_alpha3  |-> IF cc.Alpha3 # "" THEN MapSet(st.by_alpha3, cc.Alpha3, cc)
                  ELSE st.by_alpha3,
   by_name    |-> MapSet(st.by_name, cc.Name, cc),
   by_numeric |-> MapSet(st.by_numeric, cc.Numeric, cc),
   name_trie  |-> TrieInsert(st.name_trie, ToLower(cc.Name), cc)]

\* The iteration order of a Go map is not specified.  The derived indexes depend
\* on it only through the records that share a key of some index, so the model
\* takes the literal's order with up to MaxMoved of those records moved to the end.
MaxMoved == 1

BaseOrder == [i \in 1..Len(Literal) |-> Literal[i].key]

\* The trie key of each record of the literal.
LowerName == [k \in LiteralKeys |-> ToLower(LiteralMap[k].Name)]

\* The keys whose record shares a key of some derived index with another record.
Colliding ==
  {k \in LiteralKeys : \E j \in LiteralKeys :
     /\ j # k
     /\ \/ LiteralMap[j].Name = LiteralMap[k].Name
        \/ LiteralMap[j].Numeric = LiteralMap[k].Numeric
        \/ LiteralMap[k].Alpha3 # "" /\ LiteralMap[j].Alpha3 = LiteralMap[k].Alpha3
        \/ LowerName[j] = LowerName[k]}

\* The elements of a sequence.
Range(s) == {s[i] : i \in 1..Len(s)}

RECURSIVE Tails(_)
\* The sequences of at most n colliding keys.
Tails(n) ==
  IF n = 0 THEN {<<>>}
  ELSE Tails(n - 1) \cup
       {Append(t, k) : t \in Tails(n - 1), k \in Colliding}

Orders ==
  {SelectSeq(BaseOrder, LAMBDA k : k \notin Range(t)) \o t :
     t \in {u \in Tails(MaxMoved) : Cardinality(Range(u)) = Len(u)}}

\* init() up to the range loop: the four allocations and the assignment of the
\* literal; the runtime fixes the order in which the loop will yield the keys.
initMake ==
  /\ pc = "start"
  /\ by_name' = MakeMap
  /\ by_alpha3' = MakeMap
  /\ by_numeric' = MakeMap
  /\ name_trie' = NewTrie
  /\ by_alpha2' = LiteralMap
  /\ \E o \in Orders : order' = o
  /\ done' = 0
  /\ pc' = "loop"
  /\ UNCHANGED <<call, goroutines>>

\* One iteration of the range loop, on the next key of the order; init() returns
\* after the last one.
initLoop ==
  /\ pc = "loop"
  /\ done < Len(order)
  /\ LET st == LoopBody([by_alpha3 |-> by_alpha3, by_name |-> by_name,
                         by_numeric |-> by_numeric, name_trie |-> name_trie],
                        by_alpha2[order[done + 1]])
     IN  /\ by_alpha3' = st.by_alpha3
         /\ by_name' = st.by_name
         /\ by_numeric' = st.by_numeric
         /\ name_trie' = st.name_trie
  /\ done' = done + 1
  /\ pc' = IF done + 1 = Len(order) THEN "ready" ELSE "loop"
  /\ UNCHANGED <<by_alpha2, order, call, goroutines>>

----------------------------------------------------------------------------
(* The accessors *)

\* Faulty variant: found is computed from the three-letter code.
GetByAlpha2_okFromAlpha3(a2) ==
  LET code == MapGet(by_alpha2, a2)
  IN  [code |-> code, ok |-> code.Alpha3 # ""]

\* Faulty variant: found is returned as true whatever the map held.
GetByAlpha2_okAlways(a2) ==
  LET code == MapGet(by_alpha2, a2)
  IN  [code |-> code, ok |-> TRUE]

\* Faulty variant: the key is matched without regard to case.
GetByAlpha2_caseFolded(a2) ==
  LET hits == {k \in DOMAIN by_alpha2 : ToLower(k) = ToLower(a2)}
      code == IF hits = {} THEN ZeroCountryCode ELSE by_alpha2[CHOOSE k \in hits : TRUE]
  IN  [code |-> code, ok |-> code.Alpha2 # ""]

GetByAlpha2(a2) ==
  LET code == MapGet(by_alpha2, a2)
  IN  [code |-> code, ok |-> code.Alpha2 # ""]

\* Faulty variant: the accessor reads the two-letter index (a copy of GetByAlpha2 left as it was).
GetByAlpha3_readsAlpha2(a3) ==
  LET code == MapGet(by_alpha2, a3)
  IN  [code |-> code, ok |-> code.Alpha2 # ""]

GetByAlpha3(a3) ==
  LET code == MapGet(by_alpha3, a3)
  IN  [code |-> code, ok |-> code.Alpha2 # ""]

\* Faulty variant: found is taken from the Alpha3 field of the record read.
GetByName_okFromAlpha3(name) ==
  LET code == MapGet(by_name, name)
  IN  [code |-> code, ok |-> code.Alpha3 # ""]

GetByName(name) ==
  LET code == MapGet(by_name, name)
  IN  [code |-> code, ok |-> code.Alpha2 # ""]

\* Faulty variant: the argument is handed to the trie as it came, not lowercased.
FindByName_noLower(prefix) ==
  AppendEach(MakeSlice, VisitSubtree(name_trie, Runes(prefix)))

\* matches is made empty; the visitor appends every item the trie visits under the
\* lowercased prefix.
FindByName(prefix) ==
  AppendEach(MakeSlice, VisitSubtree(name_trie, ToLower(prefix)))

\* The functions the package exports.
Exported == {"GetByAlpha2", "GetByAlpha3", "GetByName", "FindByName"}

\* Arguments the model passes to GetByAlpha2: keys of the table, absent codes, and
\* case-changed or padded forms of a key.
Alpha2Inputs ==
  { "UM", "FI", "SF", "GB", "UK", "EA", "US", "TP", "ZZ", "", "um", " UM", "UM ", "Um"}
\* Arguments the model passes to GetByAlpha3.
Alpha3Inputs ==
  { "UMI", "FIN", "GBR", "USA", "ANHH", "", "ZZZ", "fin", "FIN ", "EA", " FIN", "Fin"}
\* Arguments the model passes to GetByName.
NameInputs ==
  { "Finland", "United Kingdom", "United States Minor Outlying Islands", "Zimbabwe",
   "finland", "FINLAND", "Finland ", "United States Minor", "", "Atlantis",
   " Finland"}
\* Arguments the model passes to FindByName (the first is the one of TestFindByName).
PrefixInputs ==
  { "United States Minor", "united states minor", "UNITED STATES MINOR", "",
   "zz-nonexistent-prefix", "Finland", "fin", "FIN", "United Kingdom", "united k", "U",
   "u", "Z", "z", "\\u00C5", "\\u00E5", "\\u212Bland", "\\u00C5LAND", "Saint ",
   "saint", "Zimbabwe", "zimbabwes", "x", "Q"}
\* Faulty variant: the lookup is served while the range loop of init() still runs.
CallGetByAlpha2_duringInit ==
  /\ pc # "start"
  /\ call = NoCall
  /\ \E a2 \in Alpha2Inputs :
       call' = [op |-> "GetByAlpha2", arg |-> a2, ret |-> GetByAlpha2(a2)]
  /\ UNCHANGED <<registry, pc, order, done, goroutines>>

\* Faulty variant: a miss is remembered in the index under the queried key.
CallGetByAlpha2_cachesMiss ==
  /\ pc = "ready"
  /\ call = NoCall
  /\ \E a2 \in Alpha2Inputs :
       /\ call' = [op |-> "GetByAlpha2", arg |-> a2, ret |-> GetByAlpha2(a2)]
       /\ by_alpha2' = IF a2 \in DOMAIN by_alpha2 THEN by_alpha2
                       ELSE MapSet(by_alpha2, a2, [ZeroCountryCode EXCEPT !.Alpha2 = a2])
  /\ UNCHANGED <<by_name, by_alpha3, by_numeric, name_trie, pc, order, done, goroutines>>

\* An accessor is called by a caller that holds no result; CallReturn is the caller
\* dropping the result it holds.
CallGetByAlpha2 ==
  /\ pc = "ready"
  /\ call = NoCall
  /\ \E a2 \in Alpha2Inputs :
       call' = [op |-> "GetByAlpha2", arg |-> a2, ret |-> GetByAlpha2(a2)]
  /\ UNCHANGED <<registry, pc, order, done, goroutines>>

CallGetByAlpha3 ==
  /\ pc = "ready"
  /\ call = NoCall
  /\ \E a3 \in Alpha3Inputs :
       call' = [op |-> "GetByAlpha3", arg |-> a3, ret |-> GetByAlpha3(a3)]
  /\ UNCHANGED <<registry, pc, order, done, goroutines>>

\* Faulty variant: reading an absent key leaves a zero-value entry under it.
CallGetByName_insertsKey ==
  /\ pc = "ready"
  /\ call = NoCall
  /\ \E name \in NameInputs :
       /\ call' = [op |-> "GetByName", arg |-> name, ret |-> GetByName(name)]
       /\ by_name' = IF name \in DOMAIN by_name THEN by_name
                     ELSE MapSet(by_name, name, ZeroCountryCode)
  /\ UNCHANGED <<by_alpha2, by_alpha3, by_numeric, name_trie, pc, order, done, goroutines>>

CallGetByName ==
  /\ pc = "ready"
  /\ call = NoCall
  /\ \E name \in NameInputs :
       call' = [op |-> "GetByName", arg |-> name, ret |-> GetByName(name)]
  /\ UNCHANGED <<registry, pc, order, done, goroutines>>

CallFindByName ==
  /\ pc = "ready"
  /\ call = NoCall
  /\ \E prefix \in PrefixInputs :
       call' = [op |-> "FindByName", arg |-> prefix, ret |-> FindByName(prefix)]
  /\ UNCHANGED <<registry, pc, order, done, goroutines>>

CallReturn ==
  /\ pc = "ready"
  /\ call # NoCall
  /\ call' = NoCall
  /\ UNCHANGED <<registry, pc, order, done, goroutines>>

Next ==
  \/ initMake
  \/ initLoop
  \/ CallGetByAlpha2
  \/ CallGetByAlpha3
  \/ CallGetByName
  \/ CallFindByName
  \/ CallReturn

Spec == Init /\ [][Next]_vars

----------------------------------------------------------------------------
(* Accessors called from several goroutines *)

\* The iteration orders of the range loop tried with concurrent callers: the order
\* of the literal, and that order with FI yielded last.
ConcOrders ==
  {BaseOrder, SelectSeq(BaseOrder, LAMBDA k : k # "FI") \o <<"FI">>}

initMakeConc ==
  /\ pc = "start"
  /\ by_name' = MakeMap
  /\ by_alpha3' = MakeMap
  /\ by_numeric' = MakeMap
  /\ name_trie' = NewTrie
  /\ by_alpha2' = LiteralMap
  /\ \E o \in ConcOrders : order' = o
  /\ done' = 0
  /\ pc' = "loop"
  /\ UNCHANGED <<call, goroutines>>

ConcAlpha2Inputs == {"UM"}

ConcAlpha3Inputs == {"FIN"}

ConcNameInputs == {"Atlantis"}

ConcPrefixInputs == {"fin", "united k", "Z"}

\* An exact lookup run by goroutine g: one read of a shared map.
GoGetByAlpha2(g) ==
  /\ pc = "ready"
  /\ goroutines[g].at = "idle"
  /\ \E a2 \in ConcAlpha2Inputs :
       goroutines' = [goroutines EXCEPT ![g] =
         [NoRun EXCEPT !.at = "returned", !.op = "GetByAlpha2", !.arg = a2,
                       !.ret = GetByAlpha2(a2)]]
  /\ UNCHANGED <<registry, pc, order, done, call>>

GoGetByAlpha3(g) ==
  /\ pc = "ready"
  /\ goroutines[g].at = "idle"
  /\ \E a3 \in ConcAlpha3Inputs :
       goroutines' = [goroutines EXCEPT ![g] =
         [NoRun EXCEPT !.at = "returned", !.op = "GetByAlpha3", !.arg = a3,
                       !.ret = GetByAlpha3(a3)]]
  /\ UNCHANGED <<registry, pc, order, done, call>>

GoGetByName(g) ==
  /\ pc = "ready"
  /\ goroutines[g].at = "idle"
  /\ \E name \in ConcNameInputs :
       goroutines' = [goroutines EXCEPT ![g] =
         [NoRun EXCEPT !.at = "returned", !.op = "GetByName", !.arg = name,
                       !.ret = GetByName(name)]]
  /\ UNCHANGED <<registry, pc, order, done, call>>

\* FindByName entered by goroutine g: matches = make([]CountryCode, 0).
GoFindByNameMake(g) ==
  /\ pc = "ready"
  /\ goroutines[g].at = "idle"
  /\ \E prefix \in ConcPrefixInputs :
       goroutines' = [goroutines EXCEPT ![g] =
         [NoRun EXCEPT !.at = "visiting", !.op = "FindByName", !.arg = prefix,
                       !.matches = MakeSlice, !.next = 1]]
  /\ UNCHANGED <<registry, pc, order, done, call>>

\* Faulty variant: the visit closures of all running calls append to one slice.
Accumulate_shared(gs, g, item) ==
  [h \in DOMAIN gs |->
     IF gs[h].at = "visiting"
     THEN [gs[h] EXCEPT !.matches = AppendEach(@, <<item>>),
                        !.next = IF h = g THEN @ + 1 ELSE @]
     ELSE gs[h]]

\* The visit closure of goroutine g's call appends item to that call's matches.
Accumulate(gs, g, item) ==
  [gs EXCEPT ![g].matches = AppendEach(@, <<item>>), ![g].next = @ + 1]

\* One step of the subtree walk of goroutine g's call: the trie is read and the
\* visitor is called on the next item under the prefix.
GoVisit(g) ==
  /\ pc = "ready"
  /\ goroutines[g].at = "visiting"
  /\ LET under == VisitSubtree(name_trie, ToLower(goroutines[g].arg))
     IN  /\ goroutines[g].next <= Len(under)
         /\ goroutines' = Accumulate(goroutines, g, under[goroutines[g].next])
  /\ UNCHANGED <<registry, pc, order, done, call>>

\* The walk of goroutine g's call is over: FindByName returns matches.
GoFindByNameReturn(g) ==
  /\ pc = "ready"
  /\ goroutines[g].at = "visiting"
  /\ goroutines[g].next > Len(VisitSubtree(name_trie, ToLower(goroutines[g].arg)))
  /\ goroutines' = [goroutines EXCEPT ![g].at = "returned", ![g].ret = goroutines[g].matches]
  /\ UNCHANGED <<registry, pc, order, done, call>>

\* Goroutine g has used the result of its call.
GoDone(g) ==
  /\ pc = "ready"
  /\ goroutines[g].at = "returned"
  /\ goroutines' = [goroutines EXCEPT ![g] = NoRun]
  /\ UNCHANGED <<registry, pc, order, done, call>>

NextConc ==
  \/ initMakeConc
  \/ initLoop
  \/ \E g \in Goroutines : GoGetByAlpha2(g)
  \/ \E g \in Goroutines : GoGetByAlpha3(g)
  \/ \E g \in Goroutines : GoGetByName(g)
  \/ \E g \in Goroutines : GoFindByNameMake(g)
  \/ \E g \in Goroutines : GoVisit(g)
  \/ \E g \in Goroutines : GoFindByNameReturn(g)
  \/ \E g \in Goroutines : GoDone(g)

SpecConc == Init /\ [][NextConc]_vars

----------------------------------------------------------------------------
(* Two runs of the program *)

\* The iteration orders of the range loop tried in each of two runs: the order of
\* the literal, and that order with GB and FI yielded last.
RunOrders ==
  {BaseOrder, SelectSeq(BaseOrder, LAMBDA k : k \notin {"GB", "FI"}) \o <<"GB", "FI">>}

initMakeRuns ==
  /\ pc = "start"
  /\ by_name' = MakeMap
  /\ by_alpha3' = MakeMap
  /\ by_numeric' = MakeMap
  /\ name_trie' = NewTrie
  /\ by_alpha2' = LiteralMap
  /\ \E o \in RunOrders : order' = o
  /\ done' = 0
  /\ pc' = "loop"
  /\ UNCHANGED <<call, goroutines>>

\* What the lookups of the colliding keys return in the current state.
Answers ==
  [fin     |-> GetByAlpha3("FIN"),
   finland |-> GetByName("Finland"),
   uk      |-> GetByName("United Kingdom")]

\* The process ends and the program is started again: the package variables of
\* the new process are as before init().  call keeps, for comparison with the
\* second run, what the first run answered and the order its loop took.
Restart ==
  /\ pc = "ready"
  /\ call = NoCall
  /\ call' = [op |-> "run", arg |-> "", ret |-> [answers |-> Answers, order |-> order]]
  /\ by_alpha2' = MakeMap
  /\ by_name' = MakeMap
  /\ by_alpha3' = MakeMap
  /\ by_numeric' = MakeMap
  /\ name_trie' = NewTrie
  /\ pc' = "start"
  /\ order' = <<>>
  /\ done' = 0
  /\ UNCHANGED goroutines

NextRuns ==
  \/ initMakeRuns
  \/ initLoop
  \/ Restart

SpecRuns == Init /\ [][NextRuns]_vars

----------------------------------------------------------------------------
(* Properties *)

\* init() has returned and no accessor result is held: the registry as every
\* later call finds it.
Idle == pc = "ready" /\ call = NoCall

\* The records of the canonical table.
Records == {Literal[i].cc : i \in 1..Len(Literal)}

\* For each argument p the model passes to FindByName, the records whose lowercased
\* Name starts with the lowercased p.
MatchTable ==
  [p \in PrefixInputs |->
     {Literal[i].cc : i \in {j \in 1..Len(Literal) :
                               HasPrefix(ToLower(Literal[j].cc.Name), ToLower(p))}}]

Matching(p) == MatchTable[p]

\* C1: for every record r of the table, GetByAlpha2(r.Alpha2) returns found = true
\* and a record equal to r in all six fields.
C1_GetByAlpha2ReturnsRecord ==
  /\ Idle => \A r \in Records : GetByAlpha2(r.Alpha2) = [code |-> r, ok |-> TRUE]
  /\ call.op = "GetByAlpha2" =>
       \A r \in Records : r.Alpha2 = call.arg =>
          /\ call.ret.ok
          /\ call.ret.code.Name = r.Name
          /\ call.ret.code.Alpha2 = r.Alpha2
          /\ call.ret.code.Alpha3 = r.Alpha3
          /\ call.ret.code.Numeric = r.Numeric
          /\ call.ret.code.DialingCode = r.DialingCode
          /\ call.ret.code.Assignment = r.Assignment

C1_Witness ==
  /\ call.op = "GetByAlpha2"
  /\ call.arg = "UK"
  /\ call.ret.ok
  /\ call.ret.code.Name = "United Kingdom"
  /\ call.ret.code.Alpha3 = ""

\* C2 (as claimed): FindByName(p) holds every record whose lowercased Name starts
\* with lowercase(p), the records that share their Name with another included.
C2_FindByNameComplete ==
  call.op = "FindByName" =>
    \A r \in Matching(call.arg) : r \in Range(call.ret.elems)

\* C3: every record FindByName(p) returns has a lowercased Name that starts with
\* lowercase(p).
C3_FindByNameSound ==
  call.op = "FindByName" =>
    \A i \in 1..Len(call.ret.elems) :
       HasPrefix(ToLower(call.ret.elems[i].Name), ToLower(call.arg))

C3_Witness ==
  /\ call.op = "FindByName"
  /\ call.arg = "Saint "
  /\ Len(call.ret.elems) > 1
  /\ \E i \in 1..Len(call.ret.elems) : call.ret.elems[i].Name = "Saint Lucia"

\* C4: when exactly one record's lowercased Name starts with lowercase(p),
\* FindByName(p) has length 1 and its element is the record GetByAlpha2 returns for
\* that record's Alpha2; FindByName("United States Minor") has length 1 and its
\* element is GetByAlpha2("UM").
C4_SingleMatch ==
  call.op = "FindByName" =>
    /\ Cardinality(Matching(call.arg)) = 1 =>
         /\ Len(call.ret.elems) = 1
         /\ \A r \in Matching(call.arg) :
               /\ GetByAlpha2(r.Alpha2).ok
               /\ call.ret.elems[1] = GetByAlpha2(r.Alpha2).code
    /\ call.arg = "United States Minor" =>
         /\ Len(call.ret.elems) = 1
         /\ GetByAlpha2("UM").ok
         /\ call.ret.elems[1] = GetByAlpha2("UM").code

C4_Witness ==
  /\ call.op = "FindByName"
  /\ call.arg = "United States Minor"
  /\ Cardinality(Matching(call.arg)) = 1
  /\ Len(call.ret.elems) = 1
  /\ call.ret.elems[1].Alpha2 = "UM"

\* C5 (as claimed): FindByName("") has as many elements as the table has records
\* (as the alpha2 index has entries).
C5_EmptyPrefixReturnsAll ==
  (call.op = "FindByName" /\ call.arg = "") =>
     Len(call.ret.elems) = Cardinality(DOMAIN by_alpha2)

\* C6: GetByAlpha2(c) for a string c that is the Alpha2 of no record returns
\* found = false and the zero-value record.
C6_GetByAlpha2Absent ==
  /\ Idle => \A c \in Alpha2Inputs : (\A r \in Records : r.Alpha2 # c) =>
       GetByAlpha2(c) =
         [code |-> [Name |-> "", Alpha2 |-> "", Alpha3 |-> "", Numeric |-> 0,
                    DialingCode |-> "", Assignment |-> 0],
          ok |-> FALSE]
  /\ (call.op = "GetByAlpha2" /\ \A r \in Records : r.Alpha2 # call.arg) =>
       /\ ~call.ret.ok
       /\ call.ret.code =
            [Name |-> "", Alpha2 |-> "", Alpha3 |-> "", Numeric |-> 0,
             DialingCode |-> "", Assignment |-> 0]

C6_Witness ==
  /\ call.op = "GetByAlpha2"
  /\ call.arg = "ZZ"
  /\ ~call.ret.ok
  /\ call.ret.code.Alpha2 = ""

\* C7: for every record r with a non-empty Alpha3, GetByAlpha3(r.Alpha3) returns
\* found = true and a record whose Alpha3 is r.Alpha3.
C7_GetByAlpha3Finds ==
  /\ Idle => \A r \in Records : r.Alpha3 # "" =>
       /\ GetByAlpha3(r.Alpha3).ok
       /\ GetByAlpha3(r.Alpha3).code.Alpha3 = r.Alpha3
  /\ (call.op = "GetByAlpha3" /\ call.arg # ""
        /\ \E r \in Records : r.Alpha3 = call.arg) =>
       /\ call.ret.ok
       /\ call.ret.code.Alpha3 = call.arg

C7_Witness ==
  /\ call.op = "GetByAlpha3"
  /\ call.arg = "FIN"
  /\ call.ret.ok
  /\ call.ret.code.Alpha3 = "FIN"
  /\ call.ret.code.Alpha2 = "FI"

\* C8: for every record r, GetByName(r.Name) returns found = true and a record
\* whose Name is r.Name; for a string that is the exact Name of no record it returns
\* found = false and the zero-value record.
C8_GetByNameExact ==
  /\ Idle => \A r \in Records :
       /\ GetByName(r.Name).ok
       /\ GetByName(r.Name).code.Name = r.Name
       /\ GetByName(r.Name).code \in Records
  /\ Idle => \A n \in NameInputs : (\A r \in Records : r.Name # n) =>
       GetByName(n) =
         [code |-> [Name |-> "", Alpha2 |-> "", Alpha3 |-> "", Numeric |-> 0,
                    DialingCode |-> "", Assignment |-> 0],
          ok |-> FALSE]
  /\ call.op = "GetByName" =>
       IF \E r \in Records : r.Name = call.arg
       THEN call.ret.ok /\ call.ret.code.Name = call.arg
       ELSE /\ ~call.ret.ok
            /\ call.ret.code =
                 [Name |-> "", Alpha2 |-> "", Alpha3 |-> "", Numeric |-> 0,
                  DialingCode |-> "", Assignment |-> 0]

C8_Witness ==
  /\ call.op = "GetByName"
  /\ call.arg = "Finland"
  /\ call.ret.ok
  /\ call.ret.code.Name = "Finland"
  /\ call.ret.code.Alpha2 = "SF"

\* C9 (as claimed): once the registry is built, GetByNumeric is one of the
\* functions the package offers.
C9_GetByNumericOffered ==
  pc = "ready" => "GetByNumeric" \in Exported

\* C10: FindByName(p) for a prefix p that no record's lowercased Name starts with
\* returns an empty sequence that is not nil.
C10_NoMatchEmpty ==
  (call.op = "FindByName" /\ Matching(call.arg) = {}) =>
     /\ ~call.ret.isNil
     /\ call.ret.elems = <<>>
     /\ Len(call.ret.elems) = 0

C10_Witness ==
  /\ call.op = "FindByName"
  /\ call.arg = "zz-nonexistent-prefix"
  /\ Matching(call.arg) = {}
  /\ ~call.ret.isNil
  /\ Len(call.ret.elems) = 0

RECURSIVE TrimRunes(_)
\* The code points r without leading and trailing spaces.
TrimRunes(r) ==
  IF r # <<>> /\ Head(r) = 32 THEN TrimRunes(Tail(r))
  ELSE IF r # <<>> /\ r[Len(r)] = 32 THEN TrimRunes(SubSeq(r, 1, Len(r) - 1))
  ELSE r

\* a is another string than key that case-folding and trimming would make equal to it.
VariantOf(a, key) == a # key /\ MapRunes(TrimRunes(Runes(a))) = ToLower(key)

\* For each argument of an exact lookup, whether it is such a form of the key of
\* some record.
Alpha2Variants == [a \in Alpha2Inputs |-> \E r \in Records : VariantOf(a, r.Alpha2)]

Alpha3Variants == [a \in Alpha3Inputs |-> \E r \in Records : VariantOf(a, r.Alpha3)]

NameVariants == [a \in NameInputs |-> \E r \in Records : VariantOf(a, r.Name)]

\* The lowercase form of each FindByName argument.
LowerPrefix == [p \in PrefixInputs |-> ToLower(p)]

\* C11: for two prefixes p and q with lowercase(p) = lowercase(q), FindByName(p) and
\* FindByName(q) return the same sequence of records.
C11_FindByNameCaseInsensitive ==
  call.op = "FindByName" =>
    \A q \in PrefixInputs :
      (q # call.arg /\ LowerPrefix[q] = LowerPrefix[call.arg]) => FindByName(q) = call.ret

C11_Witness ==
  /\ call.op = "FindByName"
  /\ call.arg = "UNITED STATES MINOR"
  /\ LowerPrefix["United States Minor"] = LowerPrefix[call.arg]
  /\ Len(call.ret.elems) = 1
  /\ FindByName("United States Minor") = call.ret

\* C12: the exact lookups do not normalize the key: GetByAlpha2, GetByAlpha3 and
\* GetByName of a case-changed or space-padded form of a record's key return
\* found = false.
C12_NoNormalization ==
  /\ Idle => /\ \A a \in Alpha2Inputs : Alpha2Variants[a] => ~GetByAlpha2(a).ok
             /\ \A a \in Alpha3Inputs : Alpha3Variants[a] => ~GetByAlpha3(a).ok
             /\ \A a \in NameInputs : NameVariants[a] => ~GetByName(a).ok
  /\ (call.op = "GetByAlpha2" /\ Alpha2Variants[call.arg]) => ~call.ret.ok
  /\ (call.op = "GetByAlpha3" /\ Alpha3Variants[call.arg]) => ~call.ret.ok
  /\ (call.op = "GetByName" /\ NameVariants[call.arg]) => ~call.ret.ok

C12_Witness ==
  /\ call.op = "GetByAlpha2"
  /\ call.arg = "um"
  /\ \A a \in {"um", " UM", "UM ", "Um"} : Alpha2Variants[a]
  /\ \A a \in {"fin", "FIN ", " FIN", "Fin"} : Alpha3Variants[a]
  /\ \A a \in {"finland", "FINLAND", "Finland ", " Finland"} : NameVariants[a]
  /\ ~call.ret.ok

\* What the accessor op returns for arg in the current state.
Result(op, arg) ==
  CASE op = "GetByAlpha2" -> GetByAlpha2(arg)
    [] op = "GetByAlpha3" -> GetByAlpha3(arg)
    [] op = "GetByName"   -> GetByName(arg)
    [] op = "FindByName"  -> FindByName(arg)

\* What FindByName returns for prefix when the prefix index is trie.
FindByNameOn(trie, prefix) == AppendEach(MakeSlice, VisitSubtree(trie, ToLower(prefix)))

\* The prefixes whose results are compared across every step.
RepeatedPrefixes == {"", "fin", "United Kingdom", "zz-nonexistent-prefix"}

\* C13: after construction, an accessor called again with the same input returns an
\* equal result (for FindByName the same records in the same order), whatever
\* accessor calls were made in between: a result just returned is what the same
\* call returns now, and no step changes what an accessor returns for an input.
C13_Idempotent ==
  /\ [](call.op # "none" => call.ret = Result(call.op, call.arg))
  /\ [][pc = "ready" =>
          /\ \A a \in Alpha2Inputs : GetByAlpha2(a)' = GetByAlpha2(a)
          /\ \A a \in Alpha3Inputs : GetByAlpha3(a)' = GetByAlpha3(a)
          /\ \A a \in NameInputs : GetByName(a)' = GetByName(a)
          /\ \A p \in RepeatedPrefixes : FindByNameOn(name_trie', p) = FindByName(p)]_vars

C13_Witness ==
  /\ call.op = "FindByName"
  /\ call.arg = "U"
  /\ Len(call.ret.elems) > 1
  /\ call.ret = FindByName("U")

\* ret is a whole answer of an exact lookup of key in index, where field is the
\* indexed field of the record returned.
WholeAnswer(ret, index, key, field) ==
  /\ ret.ok <=> key \in DOMAIN index
  /\ ret.ok => ret.code \in Records /\ field = key
  /\ ~ret.ok => ret.code = ZeroCountryCode

\* C14: an exact lookup never fails partially, for any input, the empty string
\* included: with found = true the result is a record of the table whose indexed
\* field equals the queried key, with found = false it is the zero-value record,
\* and found = true exactly when the key is present in the index read.
C14_ExactLookupWhole ==
  /\ Idle =>
       /\ \A a \in Alpha2Inputs :
            LET ret == GetByAlpha2(a) IN WholeAnswer(ret, by_alpha2, a, ret.code.Alpha2)
       /\ \A a \in Alpha3Inputs :
            LET ret == GetByAlpha3(a) IN WholeAnswer(ret, by_alpha3, a, ret.code.Alpha3)
       /\ \A a \in NameInputs :
            LET ret == GetByName(a) IN WholeAnswer(ret, by_name, a, ret.code.Name)
  /\ call.op = "GetByAlpha2" =>
       WholeAnswer(call.ret, by_alpha2, call.arg, call.ret.code.Alpha2)
  /\ call.op = "GetByAlpha3" =>
       WholeAnswer(call.ret, by_alpha3, call.arg, call.ret.code.Alpha3)
  /\ call.op = "GetByName" =>
       WholeAnswer(call.ret, by_name, call.arg, call.ret.code.Name)

C14_Witness ==
  /\ call.op = "GetByName"
  /\ call.arg = "United Kingdom"
  /\ call.ret.ok
  /\ call.ret.code.Alpha2 = "UK"
  /\ call.ret.code.Alpha3 = ""
  /\ GetByAlpha2("") = [code |-> ZeroCountryCode, ok |-> FALSE]
  /\ GetByAlpha3("") = [code |-> ZeroCountryCode, ok |-> FALSE]
  /\ GetByName("") = [code |-> ZeroCountryCode, ok |-> FALSE]

\* C15: no accessor changes the registry: across every accessor call the alpha2,
\* alpha3, name and numeric indexes and the prefix index keep their key sets and
\* their stored records, and a lookup of an absent key does not insert it.
C15_AccessorsReadOnly ==
  [][call' # NoCall =>
       /\ registry' = registry
       /\ call'.arg \notin DOMAIN by_alpha2 => call'.arg \notin DOMAIN by_alpha2'
       /\ call'.arg \notin DOMAIN by_alpha3 => call'.arg \notin DOMAIN by_alpha3'
       /\ call'.arg \notin DOMAIN by_name => call'.arg \notin DOMAIN by_name']_vars

C15_Witness ==
  /\ call.op = "GetByAlpha2"
  /\ call.arg = "ZZ"
  /\ ~call.ret.ok
  /\ "ZZ" \notin DOMAIN by_alpha2
  /\ by_alpha2 = LiteralMap
  /\ Cardinality(DOMAIN by_name) = 266
  /\ Cardinality(DOMAIN by_alpha3) = 263
  /\ Len(name_trie.walk) = 266

\* The key sets the indexes hold once every record has been through the loop.
AllNames == {r.Name : r \in Records}

AllAlpha3 == {r.Alpha3 : r \in Records} \ {""}

AllNumeric == {r.Numeric : r \in Records}

AllLowerNames == {LowerName[k] : k \in LiteralKeys}

\* Every index is allocated and holds the keys of all records.
Populated ==
  /\ pc = "ready"
  /\ done = Len(Literal)
  /\ DOMAIN by_alpha2 = LiteralKeys
  /\ DOMAIN by_name = AllNames
  /\ DOMAIN by_alpha3 = AllAlpha3
  /\ DOMAIN by_numeric = AllNumeric
  /\ DOMAIN name_trie.items = AllLowerNames

\* C17: construction happens once and is complete before any lookup is served: an
\* accessor call never sees an unallocated or partly populated index, construction
\* never starts again, and no index is written after the construction loop ended.
C17_ConstructedOnceBeforeUse ==
  /\ [](call.op # "none" => Populated)
  /\ [][/\ pc # "start" => pc' # "start"
        /\ pc = "ready" => pc' = "ready" /\ done' = done /\ registry' = registry]_vars

C17_Witness ==
  /\ call.op = "FindByName"
  /\ call.arg = ""
  /\ Populated
  /\ done = 268
  /\ Len(call.ret.elems) = Cardinality(AllLowerNames)

\* The code points of s are n uppercase ASCII letters.
UpperLetters(s, n) ==
  /\ Len(Runes(s)) = n
  /\ \A i \in 1..Len(Runes(s)) : Runes(s)[i] \in 65..90

\* C18: every record's Alpha2 is non-empty, is exactly two uppercase ASCII letters,
\* is shared with no other record, and equals the key under which the record is
\* stored in the alpha2 index.
C18_Alpha2WellFormed ==
  Idle =>
    /\ \A k \in DOMAIN by_alpha2 :
         /\ by_alpha2[k].Alpha2 # ""
         /\ by_alpha2[k].Alpha2 = k
         /\ UpperLetters(by_alpha2[k].Alpha2, 2)
    /\ Cardinality({by_alpha2[k].Alpha2 : k \in DOMAIN by_alpha2}) = Len(Literal)
    /\ Cardinality(DOMAIN by_alpha2) = Len(Literal)

C18_Witness ==
  /\ Idle
  /\ Len(Literal) = 268
  /\ by_alpha2["UM"].Alpha2 = "UM"
  /\ Runes(by_alpha2["UM"].Alpha2) = <<85, 77>>
  /\ by_alpha2["UK"].Alpha2 = "UK"

\* C19: no two distinct records share the same non-empty Alpha3, so the alpha3
\* index is never overwritten during construction and holds one entry for every
\* record with a non-empty Alpha3.
C19_NoAlpha3Collision ==
  Idle =>
    /\ \A j, k \in DOMAIN by_alpha2 :
         (j # k /\ by_alpha2[j].Alpha3 # "") => by_alpha2[j].Alpha3 # by_alpha2[k].Alpha3
    /\ Cardinality(DOMAIN by_alpha3)
         = Cardinality({k \in DOMAIN by_alpha2 : by_alpha2[k].Alpha3 # ""})

\* C20: every record's Alpha3 is either empty or exactly three uppercase ASCII
\* letters.
C20_Alpha3ThreeLetters ==
  Idle =>
    \A k \in DOMAIN by_alpha2 :
      by_alpha2[k].Alpha3 = "" \/ UpperLetters(by_alpha2[k].Alpha3, 3)

Assignments ==
  {OFFICIALLY_ASSIGNED, USER_ASSIGNED, EXCEPTIONALLY_RESERVED, TRANSITIONALLY_RESERVED,
   INDETERMINATELY_RESERVED, NOT_USED}

\* C21: every record's Numeric is an integer in 0..999 or the sentinel -1, and
\* every record's Assignment is one of the six enumerated values (0..5).
C21_NumericAndAssignmentRanges ==
  Idle =>
    /\ Assignments = 0..5
    /\ \A k \in DOMAIN by_alpha2 :
         /\ by_alpha2[k].Numeric \in 0..999 \/ by_alpha2[k].Numeric = -1
         /\ by_alpha2[k].Assignment \in Assignments

C21_Witness ==
  /\ Idle
  /\ by_alpha2["UK"].Numeric = -1
  /\ by_alpha2["TP"].Numeric = 0
  /\ by_alpha2["ZW"].Numeric = 716
  /\ by_alpha2["XK"].Assignment = USER_ASSIGNED
  /\ by_alpha2["SF"].Assignment = TRANSITIONALLY_RESERVED

\* For each colliding key of the alpha2 index, the keys whose record has the same
\* Name, the same Numeric, the same Alpha3.
SharesName ==
  [k \in Colliding |-> {j \in LiteralKeys : LiteralMap[j].Name = LiteralMap[k].Name}]

SharesNumeric ==
  [k \in Colliding |-> {j \in LiteralKeys : LiteralMap[j].Numeric = LiteralMap[k].Numeric}]

SharesAlpha3 ==
  [k \in Colliding |-> {j \in LiteralKeys : LiteralMap[j].Alpha3 = LiteralMap[k].Alpha3}]

\* C22: construction is last-write-wins for the name, numeric and alpha3 indexes:
\* when several records share a Name, a Numeric or a non-empty Alpha3, the index
\* holds under that key the record the loop processed last among them.
C22_LastWriteWins ==
  Idle =>
    LET pos == [k \in Colliding |-> CHOOSE i \in 1..Len(order) : order[i] = k]
        last(S) == CHOOSE k \in S : \A j \in S : pos[j] <= pos[k]
    IN  \A k \in Colliding :
          /\ by_name[by_alpha2[k].Name] = by_alpha2[last(SharesName[k])]
          /\ by_numeric[by_alpha2[k].Numeric] = by_alpha2[last(SharesNumeric[k])]
          /\ by_alpha2[k].Alpha3 # "" =>
               by_alpha3[by_alpha2[k].Alpha3] = by_alpha2[last(SharesAlpha3[k])]

C22_Witness ==
  /\ Idle
  /\ order[Len(order)] = "FI"
  /\ by_name["Finland"].Alpha2 = "FI"
  /\ by_alpha3["FIN"].Alpha2 = "FI"
  /\ by_numeric[246].Alpha2 = "FI"
  /\ by_numeric[104].Alpha2 = "MM"
  /\ by_numeric[0].Alpha2 = "ZR"
  /\ by_numeric[-1].Alpha2 = "XK"
  /\ by_name["United Kingdom"].Alpha2 = "UK"

\* The Names that more than one record of the table carries.
DuplicatedNames == {n \in AllNames : Cardinality({r \in Records : r.Name = n}) > 1}

\* C24: the exact-name index and the prefix index disagree on duplicated names:
\* the prefix index keeps the record processed first, the name index the record
\* processed last, so for a Name shared by two records FindByName(Name) returns
\* exactly one record with that Name, and not the one GetByName(Name) returns.
C24_NameIndexesDisagree ==
  Idle =>
    \A n \in DuplicatedNames :
      LET named == SelectSeq(FindByName(n).elems, LAMBDA e : e.Name = n)
          exact == GetByName(n)
          pos(a2) == CHOOSE i \in 1..Len(order) : order[i] = a2
      IN  /\ Len(named) = 1
          /\ exact.ok
          /\ named[1] # exact.code
          /\ pos(named[1].Alpha2) < pos(exact.code.Alpha2)

C24_Witness ==
  /\ Idle
  /\ DuplicatedNames = {"Finland", "United Kingdom"}
  /\ order[Len(order)] = "FI"
  /\ FindByName("Finland").elems = <<by_alpha2["SF"]>>
  /\ GetByName("Finland").code = by_alpha2["FI"]
  /\ FindByName("United Kingdom").elems = <<by_alpha2["GB"]>>
  /\ GetByName("United Kingdom").code = by_alpha2["UK"]

\* C25: after construction every derived index is consistent with the table: the
\* key set of the name index is the set of Names of all records, that of the
\* numeric index the set of their Numerics, that of the alpha3 index the set of
\* their non-empty Alpha3, and the record stored under a key k is a record of the
\* table whose corresponding field equals k.
C25_DerivedIndexesConsistent ==
  Idle =>
    /\ DOMAIN by_name = {by_alpha2[k].Name : k \in DOMAIN by_alpha2}
    /\ DOMAIN by_numeric = {by_alpha2[k].Numeric : k \in DOMAIN by_alpha2}
    /\ DOMAIN by_alpha3 = {by_alpha2[k].Alpha3 : k \in DOMAIN by_alpha2} \ {""}
    /\ \A k \in DOMAIN by_name : by_name[k] \in Records /\ by_name[k].Name = k
    /\ \A k \in DOMAIN by_numeric : by_numeric[k] \in Records /\ by_numeric[k].Numeric = k
    /\ \A k \in DOMAIN by_alpha3 : by_alpha3[k] \in Records /\ by_alpha3[k].Alpha3 = k

C25_Witness ==
  /\ Idle
  /\ Cardinality(DOMAIN by_name) = 266
  /\ Cardinality(DOMAIN by_alpha3) = 263
  /\ Cardinality(DOMAIN by_numeric) = 255
  /\ -1 \in DOMAIN by_numeric
  /\ by_numeric[-1].Numeric = -1
  /\ by_alpha3["ANHH"].Alpha2 = "AN"

\* The keys of the records that have no Alpha3.
EmptyAlpha3Keys == {k \in LiteralKeys : LiteralMap[k].Alpha3 = ""}

\* C26: the records with an empty Alpha3 (EA, EU, IC, UK) are never put in the
\* alpha3 index, so GetByAlpha3("") returns found = false and the zero-value
\* record, and those records stay retrievable through GetByAlpha2.
C26_EmptyAlpha3NotIndexed ==
  /\ "" \notin DOMAIN by_alpha3
  /\ \A k \in DOMAIN by_alpha3 : by_alpha3[k].Alpha3 # ""
  /\ (call.op = "GetByAlpha3" /\ call.arg = "") =>
       call.ret = [code |-> ZeroCountryCode, ok |-> FALSE]
  /\ (call.op = "GetByAlpha2" /\ call.arg \in EmptyAlpha3Keys) =>
       call.ret = [code |-> LiteralMap[call.arg], ok |-> TRUE]
  /\ Idle =>
       /\ GetByAlpha3("") = [code |-> ZeroCountryCode, ok |-> FALSE]
       /\ \A k \in EmptyAlpha3Keys :
            GetByAlpha2(k) = [code |-> LiteralMap[k], ok |-> TRUE]

C26_Witness ==
  /\ call.op = "GetByAlpha3"
  /\ call.arg = ""
  /\ ~call.ret.ok
  /\ EmptyAlpha3Keys = {"EA", "EU", "IC", "UK"}
  /\ GetByAlpha2("EA").ok
  /\ GetByAlpha2("EA").code.Alpha3 = ""
  /\ GetByAlpha2("UK").code.Name = "United Kingdom"

\* For FindByName arguments p and q, whether the lowercase form of p is a prefix of
\* the lowercase form of q.
LowerIsPrefix ==
  [p \in PrefixInputs |-> [q \in PrefixInputs |-> HasPrefix(LowerPrefix[q], LowerPrefix[p])]]

\* C27: prefix monotonicity: when lowercase(p) is a prefix of lowercase(q), every
\* record FindByName(q) returns is also returned by FindByName(p); hence every
\* result is a subset of FindByName("").
C27_PrefixMonotone ==
  call.op = "FindByName" =>
    /\ Range(call.ret.elems) \subseteq Range(FindByName("").elems)
    /\ \A p \in PrefixInputs :
         LowerIsPrefix[p][call.arg] =>
           Range(call.ret.elems) \subseteq Range(FindByName(p).elems)

C27_Witness ==
  /\ call.op = "FindByName"
  /\ call.arg = "Zimbabwe"
  /\ Len(call.ret.elems) = 1
  /\ LowerIsPrefix["Z"]["Zimbabwe"]
  /\ ~LowerIsPrefix["Zimbabwe"]["Z"]
  /\ Len(FindByName("Z").elems) = 3
  /\ call.ret.elems[1] \in Range(FindByName("Z").elems)
  /\ Len(FindByName("").elems) = 266

\* C28: every element of a FindByName result is a record of the table, equal to
\* GetByAlpha2 of its own Alpha2; no two elements have the same lowercased Name,
\* so no record appears twice and the result is never longer than the number of
\* distinct lowercased Names.
C28_ResultElementsDistinct ==
  call.op = "FindByName" =>
    LET elems == call.ret.elems
    IN  /\ \A i \in 1..Len(elems) :
             GetByAlpha2(elems[i].Alpha2) = [code |-> elems[i], ok |-> TRUE]
        /\ Cardinality({ToLower(elems[i].Name) : i \in 1..Len(elems)}) = Len(elems)
        /\ Cardinality(Range(elems)) = Len(elems)
        /\ Len(elems) <= Cardinality(AllLowerNames)

C28_Witness ==
  /\ call.op = "FindByName"
  /\ call.arg = ""
  /\ Len(call.ret.elems) = 266
  /\ Cardinality(AllLowerNames) = 266
  /\ Cardinality({e \in Range(call.ret.elems) : e.Name = "Finland"}) = 1

\* For each FindByName argument, the lowercased Names of the table that start with
\* its lowercase form: a set fixed by the table alone.
NamesUnder ==
  [p \in PrefixInputs |->
     {LowerName[k] : k \in {j \in LiteralKeys : HasPrefix(LowerName[j], LowerPrefix[p])}}]

\* C29: the set of lowercased Names FindByName(p) returns does not depend on the
\* order in which construction processed the records: under every order it is the
\* same set, fixed by the table, although the record chosen for a duplicated
\* Name and the order of the elements may differ.
C29_NamesIndependentOfOrder ==
  call.op = "FindByName" =>
    {ToLower(e.Name) : e \in Range(call.ret.elems)} = NamesUnder[call.arg]

C29_Witness ==
  /\ call.op = "FindByName"
  /\ call.arg = "fin"
  /\ order # BaseOrder
  /\ order[Len(order)] = "FI"
  /\ call.ret.elems = <<LiteralMap["SF"]>>
  /\ NamesUnder["fin"] = {ToLower("Finland")}

\* Of the keys a and b, the one the iteration order o yields later.
Later(o, a, b) ==
  LET pos(k) == CHOOSE i \in 1..Len(o) : o[i] = k
  IN  IF pos(a) > pos(b) THEN a ELSE b

\* The answers the lookups of the colliding keys give after a construction that
\* took the order o.
AnswersAfter(o) ==
  [fin     |-> [code |-> LiteralMap[Later(o, "FI", "SF")], ok |-> TRUE],
   finland |-> [code |-> LiteralMap[Later(o, "FI", "SF")], ok |-> TRUE],
   uk      |-> [code |-> LiteralMap[Later(o, "GB", "UK")], ok |-> TRUE]]

\* C23: collision outcomes differ between runs: the record under a colliding key
\* is decided by the order in which the loop iterated the alpha2 map, which is
\* unspecified, so of two runs over the same table each answers
\* GetByAlpha3("FIN") and GetByName("Finland") with FI or SF, and
\* GetByName("United Kingdom") with GB or UK, as its own order had it.
C23_CollisionOutcomeFollowsOrder ==
  /\ pc = "ready" => Answers = AnswersAfter(order)
  /\ call.op = "run" => call.ret.answers = AnswersAfter(call.ret.order)

C23_Witness ==
  /\ pc = "ready"
  /\ call.op = "run"
  /\ call.ret.answers.fin.code.Alpha2 = "SF"
  /\ call.ret.answers.finland.code.Alpha2 = "SF"
  /\ call.ret.answers.uk.code.Alpha2 = "UK"
  /\ Answers.fin.code.Alpha2 = "FI"
  /\ Answers.finland.code.Alpha2 = "FI"
  /\ Answers.uk.code.Alpha2 = "GB"

====
